---- MODULE Spec2Model ----
(***************************************************************************)
(* Model of SimpleSignalServer (src/simple_web_server.py): the signals and *)
(* trade_events tables of the SQLite store and the request handlers        *)
(* add_signal, report_event and get_signal_state.  Every handler runs on   *)
(* its own connection; a step of a handler is one SQL statement.  SELECTs  *)
(* run in autocommit mode and read the committed database; the first       *)
(* INSERT of a handler opens a write transaction (the RESERVED lock of the *)
(* database file, one writer at a time) that stays private until COMMIT.   *)
(***************************************************************************)
EXTENDS Integers, Sequences, FiniteSets, TLC

----------------------------------------------------------------------------
(* Bounds of the model *)

NThreads == 2           \* concurrent request handlers of Spec and SpecFault
MaxEvents == 2          \* trade_events rows under Spec and SpecFault
SeqMaxEvents == 2       \* trade_events rows under SpecSeq
ReplayMaxEvents == 3    \* trade_events rows under SpecReplay
MaxClock == 1           \* CURRENT_TIMESTAMP takes the values 0..MaxClock
MaxPrice == 4           \* prices of a TradingSignal are 0..MaxPrice
MaxPending == 12        \* signals rows under SpecPending
MaxPerSecond == 2       \* signals created within one second under SpecPending
PendingMaxClock == 5    \* CURRENT_TIMESTAMP under SpecPending
PendingMaxEvents == 1   \* trade_events rows under SpecPending
StatsMaxEvents == 2     \* trade_events rows under SpecStats
MaxSent == 2            \* signals the listener counts as sent under SpecParser
MaxRestarts == 7        \* failures of the listener under SpecRecovery
PollMaxSignals == 11    \* signals the listener posts under SpecPoll

----------------------------------------------------------------------------
(* Values *)

\* JSON null / absent key (Python None) for a number, and SQL NULL
Null == -1
\* a JSON string that float()/int() cannot parse
BadNum == -2
\* the key is absent from the JSON body
Missing == -3
\* None for a string-valued key
NoId == "<None>"
\* the key of a string-valued field is absent from the JSON body
MissingStr == "<missing>"

Ids == {"a", "b"}
Mids == {0, 1}
Threads == 1 .. NThreads

EventTypes ==
    {"order_placed", "tp1_hit", "tp2_hit", "tp3_hit", "sl_hit",
     "manual_close", "error", "sl_moved"}

\* Python truthiness of a request value: None, 0 and "" are falsy
FalsyNum(x) == x \in {Null, 0}

FalsyStr(x) == x \in {NoId, ""}

----------------------------------------------------------------------------
(* State *)

VARIABLES
    signals,    \* committed rows of table signals, in rowid order
    events,     \* committed rows of table trade_events; the index is the id
    txOwner,    \* the handler holding the write transaction, 0 when none
    txSignals,  \* table signals as the open write transaction sees it
    txEvents,   \* table trade_events as the open write transaction sees it
    clock,      \* CURRENT_TIMESTAMP, in seconds
    req,        \* per handler thread: the request in progress and its locals
    tieBreak,   \* how the engine lists rows that are equal under ORDER BY
    lst,        \* the listener and its parser: the message being processed
    system      \* the launcher: its recovery loop and failure counters

vars ==
    <<signals, events, txOwner, txSignals, txEvents, clock, req, tieBreak, lst, system>>

serverVars == <<signals, events, txOwner, txSignals, txEvents, clock, req, tieBreak>>

\* SQL leaves the order of rows that are equal under ORDER BY to the engine.
\* The engine is deterministic, so the order is a fixed rule of the build and
\* query plan: rows of equal key come in rowid order or in reverse rowid order.
TieBreaks == {"rowid", "reverse"}

NoRow ==
    [id |-> NoId, message_id |-> Null, channel_id |-> Null, symbol |-> NoId,
     action |-> NoId, entry_price |-> Null, stop_loss |-> Null, tp1 |-> Null,
     tp2 |-> Null, tp3 |-> Null, raw_message |-> NoId, status |-> NoId,
     created_at |-> Null, updated_at |-> Null]

NoResp ==
    [code |-> 0, stop_loss |-> Null, tp1 |-> Null, tp2 |-> Null, tp3 |-> Null,
     status |-> NoId, events |-> <<>>, signals |-> <<>>, stats |-> <<>>]

IdleReq ==
    [op |-> "idle", pc |-> "idle", data |-> <<>>, signal_id |-> NoId,
     row |-> NoRow, resp |-> NoResp]

\* a TradingSignal; NoSignal stands for None
NoSignal ==
    [pair |-> NoId, action |-> NoId, entry_price |-> Null, stop_loss |-> Null,
     take_profit_1 |-> Null, take_profit_2 |-> Null, take_profit_3 |-> Null]

\* the listener waits for a message
IdleLst ==
    [pc |-> "idle", caller |-> "none", openai_client |-> FALSE, is_reply |-> FALSE,
     text |-> <<>>, openai_result |-> <<>>, signal |-> NoSignal,
     valid |-> FALSE, calls |-> <<>>, result |-> NoSignal, sent |-> <<>>,
     response |-> 0, ok |-> FALSE, signals_sent |-> 0]

\* EnhancedSignalSystem.__init__: not running, no shutdown event, no failure
\* counted.  since_backoff_reset is time.time() - last_backoff_reset.
NewSystem ==
    [pc |-> "created", running |-> FALSE, shutdown_event |-> "none",
     current_restart_count |-> 0, consecutive_failures |-> 0,
     since_backoff_reset |-> 0, total_downtime |-> 0, backoff_delay |-> 0]

Init ==
    /\ signals = <<>>
    /\ events = <<>>
    /\ txOwner = 0
    /\ txSignals = <<>>
    /\ txEvents = <<>>
    /\ clock = 0
    /\ req = [t \in Threads |-> IdleReq]
    /\ tieBreak \in TieBreaks
    /\ lst = IdleLst
    /\ system = NewSystem

Range(s) == {s[i] : i \in 1 .. Len(s)}

Respond(t, r) ==
    req' = [req EXCEPT ![t].pc = "done", ![t].resp = r]

Code(c) == [NoResp EXCEPT !.code = c]

----------------------------------------------------------------------------
(* add_signal *)

\* a well-formed request body: the two orders the tests generate
\* (all three targets; tp1 only)
Order3 ==
    [channel_id |-> 7, symbol |-> "EURUSD", action |-> "BUY", entry_price |-> 2,
     stop_loss |-> 1, tp1 |-> 3, tp2 |-> 4, tp3 |-> 5, raw_message |-> "m"]

Order1 ==
    [channel_id |-> 7, symbol |-> "GBPUSD", action |-> "SELL", entry_price |-> 4,
     stop_loss |-> 5, tp1 |-> 3, tp2 |-> Missing, tp3 |-> Missing,
     raw_message |-> "m"]

Body(o, id, mid) ==
    [id |-> id, message_id |-> mid, channel_id |-> o.channel_id,
     symbol |-> o.symbol, action |-> o.action, entry_price |-> o.entry_price,
     stop_loss |-> o.stop_loss, tp1 |-> o.tp1, tp2 |-> o.tp2, tp3 |-> o.tp3,
     raw_message |-> o.raw_message]

GoodBodies(ids, mids) ==
    {Body(o, id, mid) : o \in {Order3, Order1}, id \in ids, mid \in mids}

\* malformed bodies, and one that violates NOT NULL
BadBodies ==
    LET b == Body(Order3, "a", 1) IN
    { [b EXCEPT !.symbol = MissingStr],
      [b EXCEPT !.tp1 = BadNum],
      [b EXCEPT !.tp2 = BadNum],
      [b EXCEPT !.action = "HOLD"],
      [b EXCEPT !.symbol = NoId] }

EventBodies(ids, mids, types) ==
    [signal_id : ids \cup {NoId}, message_id : mids \cup {Null},
     event_type : types \cup {NoId}]

\* The requests of each specification.  "conc": concurrent handlers, one
\* message_id.  "seq": one request at a time, two signals.  "replay": one
\* request at a time, one signal, every event type.
ConcIds == {"a", "b"}
ConcMids == {1}
ConcTypes == {"order_placed", "tp1_hit"}
ConcAddBodies == GoodBodies(ConcIds, ConcMids)
ConcReportBodies == EventBodies(ConcIds, ConcMids, ConcTypes)

SeqTypes == {"order_placed", "tp1_hit"}
SeqAddBodies == GoodBodies(Ids, Mids) \cup BadBodies
SeqReportBodies == EventBodies(Ids, Mids, SeqTypes)

ReplayIds == {"a"}
ReplayMids == {1}
ReplayAddBodies == GoodBodies(ReplayIds, ReplayMids)
ReplayReportBodies == EventBodies(ReplayIds, ReplayMids, EventTypes)

\* "pending": one request at a time; the listener posts the channel's
\* messages in arrival order, message ids counting up from 1, each with a
\* fresh id, and may post the last one again; at most MaxPerSecond signals
\* are created within one second
CreatedAt(now) == {i \in 1 .. Len(signals) : signals[i].created_at = now}

PendingAddBodies ==
    IF Cardinality(CreatedAt(clock)) < MaxPerSecond
    THEN {Body(Order3, ToString(m), m) :
            m \in {Len(signals), Len(signals) + 1} \cap (1 .. MaxPending)}
    ELSE {}

PendingReportBodies ==
    [signal_id : {NoId, "x"}, message_id : {1},
     event_type : {"order_placed", "sl_hit", "error"}]

\* "add": one add_signal at a time; well-formed bodies and, of one body,
\* every way of leaving a required key out, of giving null or a string that
\* is no number for a number, and of giving another action
MalformedBodies ==
    LET b == Body(Order3, "a", 1) IN
    {[b EXCEPT ![f] = MissingStr] : f \in {"id", "symbol", "action", "raw_message"}}
    \cup {[b EXCEPT ![f] = v] :
            f \in {"message_id", "channel_id", "entry_price", "stop_loss", "tp1"},
            v \in {Missing, Null, BadNum}}
    \cup {[b EXCEPT ![f] = BadNum] : f \in {"tp2", "tp3"}}
    \cup {[b EXCEPT !.action = v] : v \in {"HOLD", "buy", NoId}}
    \cup {[b EXCEPT !.tp2 = Null], [b EXCEPT !.symbol = NoId]}

AddOnlyBodies == GoodBodies(Ids, Mids) \cup MalformedBodies

\* "stats": one request at a time, two signals, an event type for each
\* stored status
StatsTypes == {"order_placed", "sl_hit", "error", "tp1_hit"}
StatsAddBodies == {Body(Order3, id, mid) : id \in Ids, mid \in {1, 2}}
StatsReportBodies ==
    [signal_id : {NoId, "a", "x"}, message_id : {Null, 1, 2}, event_type : StatsTypes]

\* "poll": the listener posts a burst of messages 1, 2, ... within one
\* second, before the agent's first report, while the execution agent polls
\* on the other connection; the agent reports, by the id it was handed, on
\* the first Signal of the response it holds that it has not reported on:
\* error for the order of message 2, which the broker rejects, order_placed
\* for every other
PollAddBodies ==
    IF events = <<>>
    THEN {Body(Order3, ToString(m), m) :
            m \in {Len(signals) + 1} \cap (1 .. PollMaxSignals)}
    ELSE {}

Unreported(r) ==
    {i \in 1 .. Len(r) :
        \E s \in Range(signals) : s.id = r[i].id /\ s.status = "pending"}

PollReportBodies ==
    IF req[1].op = "get_pending_signals" /\ req[1].pc = "done"
       /\ Unreported(req[1].resp.signals) # {}
    THEN LET r == req[1].resp.signals
             i == CHOOSE k \in Unreported(r) : \A j \in Unreported(r) : k <= j
         IN  {[signal_id |-> r[i].id, message_id |-> r[i].message_id,
               event_type |-> IF r[i].message_id = 2 THEN "error" ELSE "order_placed"]}
    ELSE {}

AddBodies(c) ==
    CASE c = "conc" -> ConcAddBodies
      [] c = "seq" -> SeqAddBodies
      [] c = "replay" -> ReplayAddBodies
      [] c = "pending" -> PendingAddBodies
      [] c = "add" -> AddOnlyBodies
      [] c = "stats" -> StatsAddBodies
      [] c = "poll" -> PollAddBodies

ReportBodies(c) ==
    CASE c = "conc" -> ConcReportBodies
      [] c = "seq" -> SeqReportBodies
      [] c = "replay" -> ReplayReportBodies
      [] c = "pending" -> PendingReportBodies
      [] c = "stats" -> StatsReportBodies
      [] c = "poll" -> PollReportBodies

StateMids(c) ==
    CASE c = "conc" -> ConcMids
      [] c = "seq" -> Mids
      [] c = "replay" -> ReplayMids
      [] c = "pending" -> {1}

EventsBound(c) ==
    CASE c = "conc" -> MaxEvents
      [] c = "seq" -> SeqMaxEvents
      [] c = "replay" -> ReplayMaxEvents
      [] c = "pending" -> PendingMaxEvents
      [] c = "stats" -> StatsMaxEvents
      [] c = "poll" -> PollMaxSignals

RequiredNum == {"message_id", "channel_id", "entry_price", "stop_loss", "tp1"}
RequiredStr == {"id", "symbol", "action", "raw_message"}

\* float(x) / int(x) raises ValueError or TypeError
NotNumber(x) == x \in {Null, BadNum}

\* AddSignalInvalid without the checks of a given tp2 and tp3
AddSignalInvalid_OptionalUnchecked(d) ==
    \/ \E f \in RequiredNum : d[f] = Missing
    \/ \E f \in RequiredStr : d[f] = MissingStr
    \/ \E f \in RequiredNum : NotNumber(d[f])
    \/ d.action \notin {"BUY", "SELL"}

\* the checks of add_signal before it touches the database
AddSignalInvalid(d) ==
    \/ \E f \in RequiredNum : d[f] = Missing
    \/ \E f \in RequiredStr : d[f] = MissingStr
    \/ \E f \in RequiredNum : NotNumber(d[f])
    \/ d.tp2 = BadNum
    \/ d.tp3 = BadNum
    \/ d.action \notin {"BUY", "SELL"}

\* data.get('tp2'): None when the key is absent
Get(x) == IF x = Missing THEN Null ELSE x

NewSignal(d, now) ==
    [id |-> d.id, message_id |-> d.message_id, channel_id |-> d.channel_id,
     symbol |-> d.symbol, action |-> d.action, entry_price |-> d.entry_price,
     stop_loss |-> d.stop_loss, tp1 |-> d.tp1, tp2 |-> Get(d.tp2),
     tp3 |-> Get(d.tp3), raw_message |-> d.raw_message, status |-> "pending",
     created_at |-> now, updated_at |-> now]

\* SignalsConstraintFails of a schema without UNIQUE on message_id
SignalsConstraintFails_NoUnique(rows, new) ==
    \/ \E s \in Range(rows) : s.id = new.id
    \/ new.symbol = NoId
    \/ new.raw_message = NoId
    \/ new.action = NoId

\* the constraints of table signals that make the INSERT raise IntegrityError
SignalsConstraintFails(rows, new) ==
    \/ \E s \in Range(rows) : s.id = new.id
    \/ \E s \in Range(rows) : s.message_id = new.message_id
    \/ new.symbol = NoId
    \/ new.raw_message = NoId
    \/ new.action = NoId

AddSignalStart(t, c) ==
    /\ req[t].pc = "idle"
    /\ \E d \in AddBodies(c) :
        req' = [req EXCEPT ![t] =
                  IF AddSignalInvalid(d)
                  THEN [IdleReq EXCEPT !.op = "add_signal", !.data = d,
                                       !.pc = "done", !.resp = Code(400)]
                  ELSE [IdleReq EXCEPT !.op = "add_signal", !.data = d,
                                       !.pc = "insert"]]
    /\ UNCHANGED <<signals, events, txOwner, txSignals, txEvents, clock, tieBreak, lst, system>>

\* AddSignalInsert of an INSERT OR IGNORE: a conflicting row is skipped and
\* the request is answered like a stored one
AddSignalInsert_IgnoreConflict(t) ==
    /\ req[t].op = "add_signal"
    /\ req[t].pc = "insert"
    /\ txOwner = 0
    /\ LET new == NewSignal(req[t].data, clock) IN
        /\ txOwner' = t
        /\ txSignals' = IF SignalsConstraintFails(signals, new)
                        THEN signals
                        ELSE Append(signals, new)
        /\ txEvents' = events
        /\ req' = [req EXCEPT ![t].pc = "commit"]
    /\ UNCHANGED <<signals, events, clock, tieBreak, lst, system>>

AddSignalInsert(t) ==
    /\ req[t].op = "add_signal"
    /\ req[t].pc = "insert"
    /\ txOwner = 0
    /\ LET new == NewSignal(req[t].data, clock) IN
        IF SignalsConstraintFails(signals, new)
        THEN /\ Respond(t, Code(409))
             /\ UNCHANGED <<txOwner, txSignals, txEvents>>
        ELSE /\ txOwner' = t
             /\ txSignals' = Append(signals, new)
             /\ txEvents' = events
             /\ req' = [req EXCEPT ![t].pc = "commit"]
    /\ UNCHANGED <<signals, events, clock, tieBreak, lst, system>>

Commit ==
    /\ signals' = txSignals
    /\ events' = txEvents
    /\ txOwner' = 0
    /\ txSignals' = <<>>
    /\ txEvents' = <<>>

Rollback ==
    /\ txOwner' = 0
    /\ txSignals' = <<>>
    /\ txEvents' = <<>>
    /\ UNCHANGED <<signals, events>>

AddSignalCommit(t) ==
    /\ req[t].op = "add_signal"
    /\ req[t].pc = "commit"
    /\ txOwner = t
    /\ Commit
    /\ Respond(t, Code(200))
    /\ UNCHANGED <<clock, tieBreak, lst, system>>

----------------------------------------------------------------------------
(* report_event *)

\* SELECT id FROM signals WHERE message_id = ?  (fetchone)
SelectByMessageId(mid) ==
    {s \in Range(signals) : s.message_id = mid}

\* SELECT id FROM signals WHERE id = ?  (fetchone)
SelectById(id) ==
    {s \in Range(signals) : s.id = id}

\* NewStatus that puts a Signal back in the queue on error
NewStatus_ErrorRequeues(event_type) ==
    IF event_type = "order_placed" THEN "active"
    ELSE IF event_type \in {"tp3_hit", "sl_hit", "manual_close"} THEN "completed"
    ELSE IF event_type = "error" THEN "pending"
    ELSE NoId

\* NewStatus with manual_close left out of the completed list
NewStatus_NoManualClose(event_type) ==
    IF event_type = "order_placed" THEN "active"
    ELSE IF event_type \in {"tp3_hit", "sl_hit"} THEN "completed"
    ELSE IF event_type = "error" THEN "failed"
    ELSE NoId

\* the status report_event stores for an event type, NoId for None
NewStatus(event_type) ==
    IF event_type = "order_placed" THEN "active"
    ELSE IF event_type \in {"tp3_hit", "sl_hit", "manual_close"} THEN "completed"
    ELSE IF event_type = "error" THEN "failed"
    ELSE NoId

\* the part of report_event that precedes its first query
ReportEventStart(t, c) ==
    /\ req[t].pc = "idle"
    /\ Len(events) + Cardinality({u \in Threads : req[u].op = "report_event"
                                                   /\ req[u].pc # "done"})
         < EventsBound(c)
    /\ \E d \in ReportBodies(c) :
        LET r == [IdleReq EXCEPT !.op = "report_event", !.data = d,
                                 !.signal_id = d.signal_id] IN
        req' = [req EXCEPT ![t] =
                  IF FalsyStr(d.event_type)
                  THEN [r EXCEPT !.pc = "done", !.resp = Code(400)]
                  ELSE IF FalsyStr(d.signal_id) /\ ~FalsyNum(d.message_id)
                  THEN [r EXCEPT !.pc = "lookup"]
                  ELSE IF FalsyStr(d.signal_id)
                  THEN [r EXCEPT !.pc = "done", !.resp = Code(400)]
                  ELSE [r EXCEPT !.pc = "verify"]]
    /\ UNCHANGED <<signals, events, txOwner, txSignals, txEvents, clock, tieBreak, lst, system>>

\* signal_id not provided: look it up by message_id
ReportEventLookup(t) ==
    /\ req[t].op = "report_event"
    /\ req[t].pc = "lookup"
    /\ LET rows == SelectByMessageId(req[t].data.message_id) IN
        IF rows # {}
        THEN \E s \in rows :
                req' = [req EXCEPT ![t].signal_id = s.id, ![t].pc = "verify"]
        ELSE Respond(t, Code(404))
    /\ UNCHANGED <<signals, events, txOwner, txSignals, txEvents, clock, tieBreak, lst, system>>

\* verify that signal_id exists
ReportEventVerify(t) ==
    /\ req[t].op = "report_event"
    /\ req[t].pc = "verify"
    /\ IF SelectById(req[t].signal_id) # {}
       THEN req' = [req EXCEPT ![t].pc = "insert"]
       ELSE IF ~FalsyNum(req[t].data.message_id)
               /\ ~FalsyStr(req[t].data.signal_id)
       THEN req' = [req EXCEPT ![t].pc = "fallback"]
       ELSE Respond(t, Code(404))
    /\ UNCHANGED <<signals, events, txOwner, txSignals, txEvents, clock, tieBreak, lst, system>>

\* ReportEventFallback that finds the row but keeps the signal_id it was given
ReportEventFallback_KeepsGivenId(t) ==
    /\ req[t].op = "report_event"
    /\ req[t].pc = "fallback"
    /\ LET rows == SelectByMessageId(req[t].data.message_id) IN
        IF rows # {}
        THEN req' = [req EXCEPT ![t].pc = "insert"]
        ELSE Respond(t, Code(404))
    /\ UNCHANGED <<signals, events, txOwner, txSignals, txEvents, clock, tieBreak, lst, system>>

\* signal_id was provided but wrong: fall back to message_id
ReportEventFallback(t) ==
    /\ req[t].op = "report_event"
    /\ req[t].pc = "fallback"
    /\ LET rows == SelectByMessageId(req[t].data.message_id) IN
        IF rows # {}
        THEN \E s \in rows :
                req' = [req EXCEPT ![t].signal_id = s.id, ![t].pc = "insert"]
        ELSE Respond(t, Code(404))
    /\ UNCHANGED <<signals, events, txOwner, txSignals, txEvents, clock, tieBreak, lst, system>>

NewEvent(signal_id, event_type, now) ==
    [signal_id |-> signal_id, event_type |-> event_type, timestamp |-> now]

\* ReportEventInsert on a connection in autocommit mode: the event row is
\* committed by the INSERT itself
ReportEventInsert_Autocommit(t) ==
    /\ req[t].op = "report_event"
    /\ req[t].pc = "insert"
    /\ txOwner = 0
    /\ txOwner' = t
    /\ txSignals' = signals
    /\ events' = Append(events,
                        NewEvent(req[t].signal_id, req[t].data.event_type, clock))
    /\ txEvents' = events'
    /\ req' = [req EXCEPT ![t].pc = "update"]
    /\ UNCHANGED <<signals, clock, tieBreak, lst, system>>

\* ReportEventInsert of an INSERT OR REPLACE under a fixed id: the new row
\* takes the place of the last one
ReportEventInsert_ReplaceLast(t) ==
    /\ req[t].op = "report_event"
    /\ req[t].pc = "insert"
    /\ txOwner = 0
    /\ txOwner' = t
    /\ txSignals' = signals
    /\ txEvents' =
         LET new == NewEvent(req[t].signal_id, req[t].data.event_type, clock) IN
         IF events = <<>> THEN <<new>> ELSE [events EXCEPT ![Len(events)] = new]
    /\ req' = [req EXCEPT ![t].pc = "update"]
    /\ UNCHANGED <<signals, events, clock, tieBreak, lst, system>>

\* INSERT INTO trade_events: opens the write transaction
ReportEventInsert(t) ==
    /\ req[t].op = "report_event"
    /\ req[t].pc = "insert"
    /\ txOwner = 0
    /\ txOwner' = t
    /\ txSignals' = signals
    /\ txEvents' = Append(events,
                          NewEvent(req[t].signal_id, req[t].data.event_type, clock))
    /\ req' = [req EXCEPT ![t].pc = "update"]
    /\ UNCHANGED <<signals, events, clock, tieBreak, lst, system>>

\* UpdateStatus of an UPDATE without its WHERE clause
RECURSIVE UpdateStatus_AllRows(_, _, _, _)
UpdateStatus_AllRows(rows, id, status, now) ==
    IF rows = <<>> THEN <<>>
    ELSE <<[Head(rows) EXCEPT !.status = status, !.updated_at = now]>>
         \o UpdateStatus_AllRows(Tail(rows), id, status, now)

\* UPDATE signals SET status = ?, updated_at = CURRENT_TIMESTAMP WHERE id = ?
RECURSIVE UpdateStatus(_, _, _, _)
UpdateStatus(rows, id, status, now) ==
    IF rows = <<>> THEN <<>>
    ELSE <<IF Head(rows).id = id
           THEN [Head(rows) EXCEPT !.status = status, !.updated_at = now]
           ELSE Head(rows)>>
         \o UpdateStatus(Tail(rows), id, status, now)

ReportEventUpdate(t) ==
    /\ req[t].op = "report_event"
    /\ req[t].pc = "update"
    /\ txOwner = t
    /\ LET new_status == NewStatus(req[t].data.event_type) IN
        txSignals' = IF new_status # NoId
                     THEN UpdateStatus(txSignals, req[t].signal_id, new_status, clock)
                     ELSE txSignals
    /\ req' = [req EXCEPT ![t].pc = "commit"]
    /\ UNCHANGED <<signals, events, txOwner, txEvents, clock, tieBreak, lst, system>>

ReportEventCommit(t) ==
    /\ req[t].op = "report_event"
    /\ req[t].pc = "commit"
    /\ txOwner = t
    /\ Commit
    /\ Respond(t, Code(200))
    /\ UNCHANGED <<clock, tieBreak, lst, system>>

\* a statement of the open transaction raises: the with-block rolls back
\* and the handler answers 500
ReportEventFail(t) ==
    /\ req[t].op = "report_event"
    /\ req[t].pc \in {"update", "commit"}
    /\ txOwner = t
    /\ Rollback
    /\ Respond(t, Code(500))
    /\ UNCHANGED <<clock, tieBreak, lst, system>>

AddSignalFail(t) ==
    /\ req[t].op = "add_signal"
    /\ req[t].pc = "commit"
    /\ txOwner = t
    /\ Rollback
    /\ Respond(t, Code(500))
    /\ UNCHANGED <<clock, tieBreak, lst, system>>

----------------------------------------------------------------------------
(* get_signal_state *)

\* WHERE signal_id = ?: the matching rows of trade_events, in rowid order
RECURSIVE EventsOf(_, _)
EventsOf(rows, signal_id) ==
    IF rows = <<>> THEN <<>>
    ELSE IF Head(rows).signal_id = signal_id
    THEN <<Head(rows)>> \o EventsOf(Tail(rows), signal_id)
    ELSE EventsOf(Tail(rows), signal_id)

\* ORDER BY over the rows, keys[i] the sort key of rows[i]: ascending key,
\* rows of equal key in the order of the engine's tie-break
SortByKey(rows, keys) ==
    LET n == Len(rows)
        Before(j, i) ==
            \/ keys[j] < keys[i]
            \/ keys[j] = keys[i] /\ (IF tieBreak = "rowid" THEN j < i ELSE j > i)
        Rank(i) == Cardinality({j \in 1 .. n : Before(j, i)}) + 1
    IN  [p \in 1 .. n |-> rows[CHOOSE i \in 1 .. n : Rank(i) = p]]

\* ORDER BY timestamp ASC
OrderByTimestamp(rows) ==
    SortByKey(rows, [i \in 1 .. Len(rows) |-> rows[i].timestamp])

\* SELECT ... FROM trade_events WHERE signal_id = ? ORDER BY timestamp ASC
SelectEvents(signal_id) == {OrderByTimestamp(EventsOf(events, signal_id))}

\* the loop over the event rows: tp hits and the trailing stop
ReplayInit(row) ==
    [tp1_hit |-> FALSE, tp2_hit |-> FALSE, tp3_hit |-> FALSE,
     current_sl |-> row.stop_loss]

\* ReplayStep in which a tp2_hit also counts as a tp1_hit
ReplayStep_Tp2ImpliesTp1(st, row, event_type) ==
    IF event_type = "tp1_hit"
    THEN [st EXCEPT !.tp1_hit = TRUE, !.current_sl = row.entry_price]
    ELSE IF event_type = "tp2_hit"
    THEN [st EXCEPT !.tp1_hit = TRUE, !.tp2_hit = TRUE, !.current_sl = row.tp1]
    ELSE IF event_type = "tp3_hit"
    THEN [st EXCEPT !.tp3_hit = TRUE]
    ELSE st

ReplayStep(st, row, event_type) ==
    IF event_type = "tp1_hit"
    THEN [st EXCEPT !.tp1_hit = TRUE, !.current_sl = row.entry_price]
    ELSE IF event_type = "tp2_hit"
    THEN [st EXCEPT !.tp2_hit = TRUE, !.current_sl = row.tp1]
    ELSE IF event_type = "tp3_hit"
    THEN [st EXCEPT !.tp3_hit = TRUE]
    ELSE st

RECURSIVE Replay(_, _, _)
Replay(st, row, evs) ==
    IF evs = <<>> THEN st
    ELSE Replay(ReplayStep(st, row, Head(evs).event_type), row, Tail(evs))

\* CurrentStatus that tests tp1_hit / tp2_hit before tp3_hit
CurrentStatus_PartialFirst(st, row) ==
    IF st.tp1_hit \/ st.tp2_hit THEN "active_partial"
    ELSE IF st.tp3_hit THEN "completed"
    ELSE row.status

CurrentStatus(st, row) ==
    IF st.tp3_hit THEN "completed"
    ELSE IF st.tp1_hit \/ st.tp2_hit THEN "active_partial"
    ELSE row.status

SignalState(row, evs) ==
    LET st == Replay(ReplayInit(row), row, evs) IN
    [code |-> 200,
     stop_loss |-> st.current_sl,
     tp1 |-> IF st.tp1_hit THEN Null ELSE row.tp1,
     tp2 |-> IF st.tp2_hit THEN Null ELSE row.tp2,
     tp3 |-> IF st.tp3_hit THEN Null ELSE row.tp3,
     status |-> CurrentStatus(st, row),
     events |-> evs,
     signals |-> <<>>]

GetSignalStateStart(t, c) ==
    /\ req[t].pc = "idle"
    /\ \E m \in StateMids(c) :
        req' = [req EXCEPT ![t] =
                  [IdleReq EXCEPT !.op = "get_signal_state",
                                  !.data = [message_id |-> m],
                                  !.pc = "signal"]]
    /\ UNCHANGED <<signals, events, txOwner, txSignals, txEvents, clock, tieBreak, lst, system>>

\* SELECT ... FROM signals WHERE message_id = ?
GetSignalStateSignal(t) ==
    /\ req[t].op = "get_signal_state"
    /\ req[t].pc = "signal"
    /\ LET rows == SelectByMessageId(req[t].data.message_id) IN
        IF rows # {}
        THEN \E s \in rows :
                req' = [req EXCEPT ![t].row = s, ![t].signal_id = s.id,
                                   ![t].pc = "events"]
        ELSE Respond(t, Code(404))
    /\ UNCHANGED <<signals, events, txOwner, txSignals, txEvents, clock, tieBreak, lst, system>>

\* GetSignalStateEvents that stores the derived status in the signals row
GetSignalStateEvents_StoreStatus(t) ==
    /\ req[t].op = "get_signal_state"
    /\ req[t].pc = "events"
    /\ txOwner = 0
    /\ \E evs \in SelectEvents(req[t].signal_id) :
        LET r == SignalState(req[t].row, evs) IN
        /\ Respond(t, r)
        /\ signals' = UpdateStatus(signals, req[t].signal_id, r.status, clock)
    /\ UNCHANGED <<events, txOwner, txSignals, txEvents, clock, tieBreak, lst, system>>

\* SELECT ... FROM trade_events, the replay and the response
GetSignalStateEvents(t) ==
    /\ req[t].op = "get_signal_state"
    /\ req[t].pc = "events"
    /\ \E evs \in SelectEvents(req[t].signal_id) :
        Respond(t, SignalState(req[t].row, evs))
    /\ UNCHANGED <<signals, events, txOwner, txSignals, txEvents, clock, tieBreak, lst, system>>

----------------------------------------------------------------------------
(* get_pending_signals *)

\* LIMIT 10
PageSize == 10

\* PendingRows of a SELECT without its WHERE clause
PendingRows_AllRows(rows) == rows

\* WHERE status = 'pending', the rows with a wider test
RECURSIVE PendingRows_NotClosed(_)
PendingRows_NotClosed(rows) ==
    IF rows = <<>> THEN <<>>
    ELSE IF Head(rows).status \in {"pending", "active"}
    THEN <<Head(rows)>> \o PendingRows_NotClosed(Tail(rows))
    ELSE PendingRows_NotClosed(Tail(rows))

\* WHERE status = 'pending': the matching rows of signals, in rowid order
RECURSIVE PendingRows(_)
PendingRows(rows) ==
    IF rows = <<>> THEN <<>>
    ELSE IF Head(rows).status = "pending"
    THEN <<Head(rows)>> \o PendingRows(Tail(rows))
    ELSE PendingRows(Tail(rows))

\* ORDER BY created_at ASC
OrderByCreatedAt(rows) ==
    SortByKey(rows, [i \in 1 .. Len(rows) |-> rows[i].created_at])

\* LIMIT n
Limit(rows, n) == SubSeq(rows, 1, IF Len(rows) < n THEN Len(rows) ELSE n)

\* the columns of the SELECT, as the dict of the response
PendingSignal(row) ==
    [id |-> row.id, message_id |-> row.message_id, symbol |-> row.symbol,
     action |-> row.action, entry_price |-> row.entry_price,
     stop_loss |-> row.stop_loss, tp1 |-> row.tp1, tp2 |-> row.tp2,
     tp3 |-> row.tp3]

\* SELECT ... FROM signals WHERE status = 'pending' ORDER BY created_at ASC
\* LIMIT 10
SelectPending ==
    {Limit(OrderByCreatedAt(PendingRows(signals)), PageSize)}

GetPendingSignals(t) ==
    /\ req[t].pc = "idle"
    /\ \E rows \in SelectPending :
        req' = [req EXCEPT ![t] =
                  [IdleReq EXCEPT
                     !.op = "get_pending_signals", !.pc = "done",
                     !.resp = [Code(200) EXCEPT !.signals =
                                 [i \in 1 .. Len(rows) |-> PendingSignal(rows[i])]]]]
    /\ UNCHANGED <<signals, events, txOwner, txSignals, txEvents, clock, tieBreak, lst, system>>

----------------------------------------------------------------------------

\* the response is sent and the thread takes the next request
----------------------------------------------------------------------------
(* stats *)

\* COUNT(*) of the rows with the status
CountStatus(rows, status) ==
    Cardinality({i \in 1 .. Len(rows) : rows[i].status = status})

\* SUM(CASE WHEN status = ? THEN 1 ELSE 0 END): NULL over no rows
SumCase(rows, status) ==
    IF rows = <<>> THEN Null ELSE CountStatus(rows, status)

\* the first query of stats: the counts of table signals
StatsSignals(t) ==
    /\ req[t].pc = "idle"
    /\ req' = [req EXCEPT ![t] =
                 [IdleReq EXCEPT
                    !.op = "stats", !.pc = "events",
                    !.resp = [NoResp EXCEPT !.stats =
                        [total_signals |-> Len(signals),
                         pending_signals |-> SumCase(signals, "pending"),
                         active_signals |-> SumCase(signals, "active"),
                         completed_signals |-> SumCase(signals, "completed"),
                         failed_signals |-> SumCase(signals, "failed"),
                         total_events |-> Null]]]]
    /\ UNCHANGED <<signals, events, txOwner, txSignals, txEvents, clock, tieBreak, lst, system>>

\* SELECT COUNT(*) FROM trade_events, and the answer
StatsEvents(t) ==
    /\ req[t].op = "stats"
    /\ req[t].pc = "events"
    /\ Respond(t, [req[t].resp EXCEPT !.code = 200,
                                      !.stats.total_events = Len(events)])
    /\ UNCHANGED <<signals, events, txOwner, txSignals, txEvents, clock, tieBreak, lst, system>>

Reply(t) ==
    /\ req[t].pc = "done"
    /\ req' = [req EXCEPT ![t] = IdleReq]
    /\ UNCHANGED <<signals, events, txOwner, txSignals, txEvents, clock, tieBreak, lst, system>>

Tick ==
    /\ clock < MaxClock
    /\ clock' = clock + 1
    /\ UNCHANGED <<signals, events, txOwner, txSignals, txEvents, req, tieBreak, lst, system>>

Handlers(t, c) ==
    \/ AddSignalStart(t, c)
    \/ AddSignalInsert(t)
    \/ AddSignalCommit(t)
    \/ ReportEventStart(t, c)
    \/ ReportEventLookup(t)
    \/ ReportEventVerify(t)
    \/ ReportEventFallback(t)
    \/ ReportEventInsert(t)
    \/ ReportEventUpdate(t)
    \/ ReportEventCommit(t)
    \/ GetSignalStateStart(t, c)
    \/ GetSignalStateSignal(t)
    \/ GetSignalStateEvents(t)
    \/ Reply(t)

\* CURRENT_TIMESTAMP under SpecPending
PendingTick ==
    /\ clock < PendingMaxClock
    /\ clock' = clock + 1
    /\ UNCHANGED <<signals, events, txOwner, txSignals, txEvents, req, tieBreak, lst, system>>

Faults(t) ==
    \/ AddSignalFail(t)
    \/ ReportEventFail(t)

\* concurrent handlers, no statement fails
Next ==
    \/ Tick
    \/ \E t \in Threads : Handlers(t, "conc")

Spec == Init /\ [][Next]_vars

\* concurrent handlers; a statement of an open transaction may fail
NextFault ==
    \/ Next
    \/ \E t \in Threads : Faults(t)

SpecFault == Init /\ [][NextFault]_vars

\* one request at a time, two signals
NextSeq ==
    \/ Tick
    \/ Handlers(1, "seq")

SpecSeq == Init /\ [][NextSeq]_vars

\* add_signal alone, one request at a time, every malformed body
NextAdd ==
    \/ Tick
    \/ AddSignalStart(1, "add")
    \/ AddSignalInsert(1)
    \/ AddSignalCommit(1)
    \/ Reply(1)

SpecAdd == Init /\ [][NextAdd]_vars

\* add_signal, report_event and stats, one request at a time
NextStats ==
    \/ Tick
    \/ AddSignalStart(1, "stats")
    \/ AddSignalInsert(1)
    \/ AddSignalCommit(1)
    \/ ReportEventStart(1, "stats")
    \/ ReportEventLookup(1)
    \/ ReportEventVerify(1)
    \/ ReportEventFallback(1)
    \/ ReportEventInsert(1)
    \/ ReportEventUpdate(1)
    \/ ReportEventCommit(1)
    \/ StatsSignals(1)
    \/ StatsEvents(1)
    \/ Reply(1)

SpecStats == Init /\ [][NextStats]_vars

\* one request at a time, one signal, every event type
NextReplay ==
    \/ Tick
    \/ Handlers(1, "replay")

SpecReplay == Init /\ [][NextReplay]_vars

\* one request at a time, more signals than a page of get_pending_signals
NextPending ==
    \/ PendingTick
    \/ AddSignalStart(1, "pending")
    \/ AddSignalInsert(1)
    \/ AddSignalCommit(1)
    \/ ReportEventStart(1, "pending")
    \/ ReportEventLookup(1)
    \/ ReportEventVerify(1)
    \/ ReportEventFallback(1)
    \/ ReportEventInsert(1)
    \/ ReportEventUpdate(1)
    \/ ReportEventCommit(1)
    \/ GetPendingSignals(1)
    \/ Reply(1)

SpecPending == Init /\ [][NextPending]_vars

\* the agent polls on connection 1; the listener's posts and the agent's
\* reports are served on connection 2
NextPoll ==
    \/ AddSignalStart(2, "poll")
    \/ AddSignalInsert(2)
    \/ AddSignalCommit(2)
    \/ ReportEventStart(2, "poll")
    \/ ReportEventVerify(2)
    \/ ReportEventInsert(2)
    \/ ReportEventUpdate(2)
    \/ ReportEventCommit(2)
    \/ GetPendingSignals(1)
    \/ Reply(1)
    \/ Reply(2)

\* every request is served to its end, the agent keeps polling, and it
\* reports on a Signal it is handed again and again
PollFairness ==
    /\ WF_vars(AddSignalInsert(2) \/ AddSignalCommit(2))
    /\ WF_vars(ReportEventVerify(2) \/ ReportEventInsert(2)
                 \/ ReportEventUpdate(2) \/ ReportEventCommit(2))
    /\ WF_vars(Reply(1))
    /\ WF_vars(Reply(2))
    /\ []<><<GetPendingSignals(1)>>_vars
    /\ SF_vars(ReportEventStart(2, "poll"))

SpecPoll == Init /\ [][NextPoll]_vars /\ PollFairness

----------------------------------------------------------------------------
(* TradingSignal (src/simple_signal_parser.py) *)

Prices == 0 .. MaxPrice

\* get_take_profits: the take profit levels that are not None
get_take_profits(s) ==
    <<s.take_profit_1>>
    \o (IF s.take_profit_2 # Null THEN <<s.take_profit_2>> ELSE <<>>)
    \o (IF s.take_profit_3 # Null THEN <<s.take_profit_3>> ELSE <<>>)

\* is_valid whose comparisons of neighbouring take profits are not strict
is_valid_NotStrict(s) ==
    IF \/ FalsyStr(s.pair) \/ FalsyStr(s.action)
       \/ FalsyNum(s.entry_price) \/ FalsyNum(s.stop_loss)
       \/ FalsyNum(s.take_profit_1)
    THEN FALSE
    ELSE LET tps == get_take_profits(s) IN
         IF s.action = "BUY"
         THEN /\ s.stop_loss < s.entry_price
              /\ s.entry_price < s.take_profit_1
              /\ \A i \in 1 .. Len(tps) - 1 : ~(tps[i] > tps[i + 1])
         ELSE /\ s.take_profit_1 < s.entry_price
              /\ s.entry_price < s.stop_loss
              /\ \A i \in 1 .. Len(tps) - 1 : ~(tps[i] < tps[i + 1])

\* is_valid that does not compare the further take profits of a SELL order
is_valid_SellFirstTargetOnly(s) ==
    IF \/ FalsyStr(s.pair) \/ FalsyStr(s.action)
       \/ FalsyNum(s.entry_price) \/ FalsyNum(s.stop_loss)
       \/ FalsyNum(s.take_profit_1)
    THEN FALSE
    ELSE LET tps == get_take_profits(s) IN
         IF s.action = "BUY"
         THEN /\ s.stop_loss < s.entry_price
              /\ s.entry_price < s.take_profit_1
              /\ \A i \in 1 .. Len(tps) - 1 : ~(tps[i] >= tps[i + 1])
         ELSE /\ s.take_profit_1 < s.entry_price
              /\ s.entry_price < s.stop_loss

\* is_valid: all([...]) over the required fields, then the price order
is_valid(s) ==
    IF \/ FalsyStr(s.pair) \/ FalsyStr(s.action)
       \/ FalsyNum(s.entry_price) \/ FalsyNum(s.stop_loss)
       \/ FalsyNum(s.take_profit_1)
    THEN FALSE
    ELSE LET tps == get_take_profits(s) IN
         IF s.action = "BUY"
         THEN /\ s.stop_loss < s.entry_price
              /\ s.entry_price < s.take_profit_1
              /\ \A i \in 1 .. Len(tps) - 1 : ~(tps[i] >= tps[i + 1])
         ELSE /\ s.take_profit_1 < s.entry_price
              /\ s.entry_price < s.stop_loss
              /\ \A i \in 1 .. Len(tps) - 1 : ~(tps[i] <= tps[i + 1])

\* the TradingSignal objects is_valid is applied to
ValidatorInputs ==
    [pair : {"EURUSD", "", NoId}, action : {"BUY", "SELL", NoId},
     entry_price : Prices \cup {Null}, stop_loss : Prices \cup {Null},
     take_profit_1 : Prices \cup {Null}, take_profit_2 : Prices \cup {Null},
     take_profit_3 : Prices \cup {Null}]

InitValid ==
    /\ signals = <<>>
    /\ events = <<>>
    /\ txOwner = 0
    /\ txSignals = <<>>
    /\ txEvents = <<>>
    /\ clock = 0
    /\ req = [t \in Threads |-> IdleReq]
    /\ tieBreak = "rowid"
    /\ \E s \in ValidatorInputs :
        lst = [IdleLst EXCEPT !.pc = "is_valid", !.caller = "direct", !.signal = s]
    /\ system = NewSystem

\* signal.is_valid()
IsValidCall ==
    /\ lst.pc = "is_valid"
    /\ lst' = [lst EXCEPT !.pc = "validated", !.valid = is_valid(lst.signal)]
    /\ UNCHANGED <<serverVars, system>>

\* is_valid applied to every TradingSignal within the bounds
SpecValid == InitValid /\ [][IsValidCall]_vars

----------------------------------------------------------------------------
(* SimplifiedSignalParser.parse_signal and SimpleTelegramListener *)

\* A message text, by what each compiled pattern finds in it:
\*   blank     nothing but white space
\*   phrase    action_pattern.search: group(1) of the first match ("BUY",
\*             "SELL"), "bare" when the match is the words `limit order`
\*             without a side, "none" when there is no match
\*   marker    which of buy_emoji_pattern / sell_emoji_pattern match
\*   reply     reply_indicators.search matches
\*   pair      group(1) of pair_pattern.search, NoId when there is no match
\*   entry, sl the number entry_pattern / sl_pattern capture, Null if none
\*   numbered  tp_numbered_pattern.findall: <<level, price>> in text order
\*   simple    the number tp_simple_pattern captures, Null if none
Phrases == {"none", "BUY", "SELL", "bare"}

Markers == {"none", "green", "red", "both"}

NumberedTargets ==
    { <<>>,
      << <<1, 3>> >>,
      << <<1, 3>>, <<2, 4>> >>,
      << <<1, 3>>, <<2, 4>>, <<3, 5>> >>,
      << <<1, 3>>, <<3, 4>> >>,
      << <<2, 4>> >>,
      << <<1, 3>>, <<1, 1>> >> }

BlankText ==
    [blank |-> TRUE, phrase |-> "none", marker |-> "none", reply |-> FALSE,
     pair |-> NoId, entry |-> Null, sl |-> Null, numbered |-> <<>>,
     simple |-> Null]

Texts ==
    {BlankText} \cup
    [blank : {FALSE}, phrase : Phrases, marker : Markers, reply : BOOLEAN,
     pair : {NoId, "GBPUSD"}, entry : {Null, 2}, sl : {Null, 1, 3},
     numbered : NumberedTargets, simple : {Null, 3}]

\* "BUY LIMIT GBPUSD @ 2  SL: 1  TP1: 3" and the order the patterns read in it
RxText ==
    [blank |-> FALSE, phrase |-> "BUY", marker |-> "none", reply |-> FALSE,
     pair |-> "GBPUSD", entry |-> 2, sl |-> 1, numbered |-> << <<1, 3>> >>,
     simple |-> Null]

RxBuy ==
    [pair |-> "GBPUSD", action |-> "BUY", entry_price |-> 2, stop_loss |-> 1,
     take_profit_1 |-> 3, take_profit_2 |-> Null, take_profit_3 |-> Null]

\* What the completion request of validate_with_openai comes back with: the
\* call raises, the content is no JSON, or the content is a JSON object.
AiSell ==
    [kind |-> "json", is_valid_signal |-> TRUE, pair |-> "EURUSD",
     action |-> "SELL", entry_price |-> 3, stop_loss |-> 4, tp1 |-> 2,
     tp2 |-> 1, tp3 |-> Null]

NoResult == [AiSell EXCEPT !.kind = "none", !.is_valid_signal = FALSE]

AiReplies ==
    { AiSell,
      [AiSell EXCEPT !.kind = "raise"],
      [AiSell EXCEPT !.kind = "garbage"],
      [AiSell EXCEPT !.is_valid_signal = FALSE],
      [AiSell EXCEPT !.stop_loss = 2],
      [AiSell EXCEPT !.pair = NoId],
      [AiSell EXCEPT !.tp3 = Missing],
      [AiSell EXCEPT !.stop_loss = Missing],
      [AiSell EXCEPT !.entry_price = Null],
      [AiSell EXCEPT !.entry_price = BadNum],
      [AiSell EXCEPT !.tp2 = BadNum],
      [AiSell EXCEPT !.action = "HOLD"],
      [AiSell EXCEPT !.action = "HOLD", !.entry_price = Null] }

\* validate_with_openai: the parsed object when it says is_valid_signal,
\* None otherwise and after any exception
validate_with_openai(reply) ==
    IF reply.kind = "json" /\ reply.is_valid_signal THEN reply ELSE NoResult

\* the exception of float(x) for a required number, "none" when it converts
FloatError(x) ==
    CASE x = Missing -> "KeyError"
      [] x = Null -> "TypeError"
      [] x = BadNum -> "ValueError"
      [] OTHER -> "none"

\* ... for tp2 and tp3, which are converted only when they are not None
OptionalFloatError(x) ==
    CASE x = Missing -> "KeyError"
      [] x = BadNum -> "ValueError"
      [] OTHER -> "none"

RECURSIVE FirstError(_)
FirstError(errs) ==
    IF errs = <<>> THEN "none"
    ELSE IF Head(errs) # "none" THEN Head(errs)
    ELSE FirstError(Tail(errs))

\* the exception raised while the TradingSignal is built from the object:
\* the arguments are evaluated in the order of the call
BuildError(r) ==
    FirstError(<<
        IF r.pair = MissingStr THEN "KeyError" ELSE "none",
        IF r.action = MissingStr THEN "KeyError"
        ELSE IF r.action \notin {"BUY", "SELL"} THEN "ValueError" ELSE "none",
        FloatError(r.entry_price),
        FloatError(r.stop_loss),
        FloatError(r.tp1),
        OptionalFloatError(r.tp2),
        OptionalFloatError(r.tp3) >>)

\* TradingSignal(pair=openai_result['pair'], ...)
FromOpenai(r) ==
    [pair |-> r.pair, action |-> r.action, entry_price |-> r.entry_price,
     stop_loss |-> r.stop_loss, take_profit_1 |-> r.tp1,
     take_profit_2 |-> r.tp2, take_profit_3 |-> r.tp3]

\* is_new_signal without the test of reply_indicators
is_new_signal_NoReplyVocabulary(text, is_reply) ==
    /\ ~is_reply
    /\ text.phrase # "none" \/ text.marker # "none"
    /\ text.pair # NoId
    /\ text.entry # Null /\ text.sl # Null
    /\ text.numbered # <<>> \/ text.simple # Null

\* is_new_signal without the tests of the pair and of the price tokens
is_new_signal_ActionOnly(text, is_reply) ==
    /\ ~is_reply
    /\ text.phrase # "none" \/ text.marker # "none"
    /\ ~text.reply

is_new_signal(text, is_reply) ==
    /\ ~is_reply
    /\ text.phrase # "none" \/ text.marker # "none"
    /\ ~text.reply
    /\ text.pair # NoId
    /\ text.entry # Null /\ text.sl # Null
    /\ text.numbered # <<>> \/ text.simple # Null

\* ExtractAction that reads the phrase first and the markers only without one
ExtractAction_PhraseFirst(text) ==
    CASE text.phrase \in {"BUY", "SELL"} -> text.phrase
      [] text.marker \in {"green", "both"} -> "BUY"
      [] text.marker = "red" -> "SELL"
      [] OTHER -> NoId

\* the side parse_signal_with_regex reads: the markers first, then group(1)
\* of action_pattern
ExtractAction(text) ==
    CASE text.marker \in {"green", "both"} -> "BUY"
      [] text.marker = "red" -> "SELL"
      [] text.phrase \in {"BUY", "SELL"} -> text.phrase
      [] OTHER -> NoId

\* {int(level): float(price) for level, price in matches}.get(level): the
\* price of the last match of the level
TpDictGet(matches, level) ==
    LET at == {i \in 1 .. Len(matches) : matches[i][1] = level} IN
    IF at = {} THEN Null
    ELSE matches[CHOOSE i \in at : \A j \in at : j <= i][2]

\* ExtractTargets that falls back on the unnumbered token for a missing tp1
ExtractTargets_SimpleFallback(text) ==
    IF text.numbered # <<>>
    THEN <<IF TpDictGet(text.numbered, 1) # Null
           THEN TpDictGet(text.numbered, 1) ELSE text.simple,
           TpDictGet(text.numbered, 2), TpDictGet(text.numbered, 3)>>
    ELSE <<text.simple, Null, Null>>

\* tp1, tp2, tp3: the numbered tokens when there are any, else the single
\* unnumbered one
ExtractTargets(text) ==
    IF text.numbered # <<>>
    THEN <<TpDictGet(text.numbered, 1), TpDictGet(text.numbered, 2),
           TpDictGet(text.numbered, 3)>>
    ELSE <<text.simple, Null, Null>>

\* the TradingSignal parse_signal_with_regex builds, NoSignal where it
\* returns None before building one
ExtractSignal(text) ==
    LET action == ExtractAction(text)
        tps == ExtractTargets(text)
    IN  IF \/ text.pair = NoId
           \/ action = NoId
           \/ text.entry = Null
           \/ text.sl = Null
           \/ tps[1] = Null
        THEN NoSignal
        ELSE [pair |-> text.pair, action |-> action, entry_price |-> text.entry,
              stop_loss |-> text.sl, take_profit_1 |-> tps[1],
              take_profit_2 |-> tps[2], take_profit_3 |-> tps[3]]

\* parse_signal_with_regex that returns the extracted order unchecked
parse_signal_with_regex_Unchecked(text) == ExtractSignal(text)

\* parse_signal_with_regex: signal if signal.is_valid() else None
parse_signal_with_regex(text) ==
    LET signal == ExtractSignal(text) IN
    IF signal # NoSignal /\ is_valid(signal) THEN signal ELSE NoSignal

\* the payload of _send_signal_to_server
SignalData(signal) ==
    [symbol |-> signal.pair, action |-> signal.action,
     entry_price |-> signal.entry_price, stop_loss |-> signal.stop_loss,
     tp1 |-> signal.take_profit_1, tp2 |-> signal.take_profit_2,
     tp3 |-> signal.take_profit_3]

Returns(signal) == lst' = [lst EXCEPT !.pc = "returned", !.result = signal]

\* _process_message: a blank message and a reply are dropped, any other text
\* goes to parse_signal
ProcessMessage ==
    /\ lst.pc = "idle"
    /\ lst.signals_sent < MaxSent
    /\ \E text \in Texts, is_reply \in BOOLEAN :
        lst' = [lst EXCEPT !.caller = "listener", !.text = text,
                           !.is_reply = is_reply,
                           !.pc = IF text.blank \/ is_reply THEN "done" ELSE "parse"]
    /\ UNCHANGED <<serverVars, system>>

\* parse_signal called by another caller, with any is_reply
ParseSignalCall ==
    /\ lst.pc = "idle"
    /\ \E text \in Texts, is_reply \in BOOLEAN :
        lst' = [lst EXCEPT !.caller = "direct", !.text = text,
                           !.is_reply = is_reply, !.pc = "parse"]
    /\ UNCHANGED <<serverVars, system>>

\* ParseSignalStart without the test of is_reply
ParseSignalStart_NoReplyTest ==
    /\ lst.pc = "parse"
    /\ lst' = [lst EXCEPT !.pc = IF lst.openai_client THEN "openai" ELSE "filter"]
    /\ UNCHANGED <<serverVars, system>>

\* ParseSignalStart that starts with the patterns
ParseSignalStart_PatternsFirst ==
    /\ lst.pc = "parse"
    /\ IF lst.is_reply
       THEN Returns(NoSignal)
       ELSE lst' = [lst EXCEPT !.pc = "filter"]
    /\ UNCHANGED <<serverVars, system>>

\* parse_signal up to the choice of the first strategy
ParseSignalStart ==
    /\ lst.pc = "parse"
    /\ IF lst.is_reply
       THEN Returns(NoSignal)
       ELSE lst' = [lst EXCEPT !.pc = IF lst.openai_client THEN "openai" ELSE "filter"]
    /\ UNCHANGED <<serverVars, system>>

\* openai_result = self.validate_with_openai(text)
ValidateWithOpenai ==
    /\ lst.pc = "openai"
    /\ \E reply \in AiReplies :
        LET r == validate_with_openai(reply) IN
        lst' = [lst EXCEPT !.calls = Append(lst.calls, "openai"),
                           !.openai_result = r,
                           !.pc = IF r # NoResult THEN "build" ELSE "filter"]
    /\ UNCHANGED <<serverVars, system>>

\* the try block of parse_signal: build the TradingSignal and validate it
BuildSignal ==
    /\ lst.pc = "build"
    /\ LET err == BuildError(lst.openai_result)
           signal == FromOpenai(lst.openai_result)
       IN  CASE err \in {"KeyError", "ValueError"} ->
                    lst' = [lst EXCEPT !.pc = "filter"]
             [] err = "TypeError" ->
                    lst' = [lst EXCEPT !.pc = "raised"]
             [] OTHER ->
                    IF is_valid(signal)
                    THEN lst' = [lst EXCEPT !.pc = "returned", !.signal = signal,
                                            !.valid = TRUE, !.result = signal]
                    ELSE lst' = [lst EXCEPT !.pc = "filter", !.signal = signal,
                                            !.valid = FALSE]
    /\ UNCHANGED <<serverVars, system>>

\* if not self.is_new_signal(text, is_reply): return None
IsNewSignal ==
    /\ lst.pc = "filter"
    /\ IF is_new_signal(lst.text, lst.is_reply)
       THEN lst' = [lst EXCEPT !.calls = Append(lst.calls, "is_new_signal"),
                               !.pc = "regex"]
       ELSE lst' = [lst EXCEPT !.calls = Append(lst.calls, "is_new_signal"),
                               !.pc = "returned", !.result = NoSignal]
    /\ UNCHANGED <<serverVars, system>>

\* signal = self.parse_signal_with_regex(text); return signal
ParseSignalWithRegex ==
    /\ lst.pc = "regex"
    /\ lst' = [lst EXCEPT !.calls = Append(lst.calls, "parse_signal_with_regex"),
                          !.pc = "returned",
                          !.result = parse_signal_with_regex(lst.text)]
    /\ UNCHANGED <<serverVars, system>>

\* ListenerSend that posts the signal a second time
ListenerSend_PostTwice ==
    /\ lst.caller = "listener"
    /\ lst.pc \in {"returned", "raised"}
    /\ IF lst.pc = "returned" /\ lst.result # NoSignal
       THEN lst' = [lst EXCEPT !.pc = "posted",
                               !.sent = <<SignalData(lst.result),
                                          SignalData(lst.result)>>]
       ELSE lst' = [lst EXCEPT !.pc = "done"]
    /\ UNCHANGED <<serverVars, system>>

\* _process_message after parse_signal: a signal goes to
\* _send_signal_to_server, which posts it to /add_signal; an exception of
\* parse_signal is caught and logged
ListenerSend ==
    /\ lst.caller = "listener"
    /\ lst.pc \in {"returned", "raised"}
    /\ IF lst.pc = "returned" /\ lst.result # NoSignal
       THEN lst' = [lst EXCEPT !.pc = "posted",
                               !.sent = <<SignalData(lst.result)>>]
       ELSE lst' = [lst EXCEPT !.pc = "done"]
    /\ UNCHANGED <<serverVars, system>>

\* what requests.post comes back with: a status code, 0 for a
\* RequestException (no answer)
ServerAnswers == {200, 409, 400, 500, 0}

\* SendSignalResult that takes only 200 for success
SendSignalResult_Only200 ==
    /\ lst.pc = "posted"
    /\ \E code \in ServerAnswers :
        LET ok == code = 200 IN
        lst' = [lst EXCEPT !.pc = "done", !.response = code, !.ok = ok,
                           !.signals_sent = IF ok THEN @ + 1 ELSE @]
    /\ UNCHANGED <<serverVars, system>>

\* _send_signal_to_server after the post and the caller's count: True for
\* 200 and 409, False for any other code and after an exception
SendSignalResult ==
    /\ lst.pc = "posted"
    /\ \E code \in ServerAnswers :
        LET ok == code \in {200, 409} IN
        lst' = [lst EXCEPT !.pc = "done", !.response = code, !.ok = ok,
                           !.signals_sent = IF ok THEN @ + 1 ELSE @]
    /\ UNCHANGED <<serverVars, system>>

\* the next message
NextMessage ==
    /\ \/ lst.pc = "done"
       \/ lst.caller = "direct" /\ lst.pc \in {"returned", "raised"}
    /\ lst' = [IdleLst EXCEPT !.openai_client = lst.openai_client,
                              !.signals_sent = lst.signals_sent]
    /\ UNCHANGED <<serverVars, system>>

\* the parser is constructed with or without an OpenAI API key
InitParser ==
    /\ signals = <<>>
    /\ events = <<>>
    /\ txOwner = 0
    /\ txSignals = <<>>
    /\ txEvents = <<>>
    /\ clock = 0
    /\ req = [t \in Threads |-> IdleReq]
    /\ tieBreak = "rowid"
    /\ \E k \in BOOLEAN : lst = [IdleLst EXCEPT !.openai_client = k]
    /\ system = NewSystem

NextParser ==
    \/ ProcessMessage
    \/ ParseSignalCall
    \/ ParseSignalStart
    \/ ValidateWithOpenai
    \/ BuildSignal
    \/ IsNewSignal
    \/ ParseSignalWithRegex
    \/ ListenerSend
    \/ SendSignalResult
    \/ NextMessage

SpecParser == InitParser /\ [][NextParser]_vars

----------------------------------------------------------------------------
(* Claims about get_signal_state and the status mapping, under SpecReplay *)

\* the stored Signal with a message_id (NoRow when there is none)
SignalOf(mid) ==
    IF \E s \in Range(signals) : s.message_id = mid
    THEN CHOOSE s \in Range(signals) : s.message_id = mid
    ELSE NoRow

\* the event types recorded for a signal id
Recorded(id) ==
    {events[i].event_type : i \in {j \in 1 .. Len(events) : events[j].signal_id = id}}

\* a thread holds the 200 response of a get_signal_state request
StateAnswered(t) ==
    /\ req[t].op = "get_signal_state"
    /\ req[t].pc = "done"
    /\ req[t].resp.code = 200

\* C1: in every get_signal_state response the current stop is the original
\* stop_loss when neither tp1_hit nor tp2_hit is recorded, the original
\* entry_price when tp1_hit is recorded and tp2_hit is not, and the original
\* tp1 whenever tp2_hit is recorded, whatever the order of the events.
C1_CurrentStop ==
    \A t \in Threads :
        StateAnswered(t) =>
            LET s == SignalOf(req[t].data.message_id)
                rec == Recorded(s.id)
            IN  req[t].resp.stop_loss =
                    IF "tp2_hit" \in rec THEN s.tp1
                    ELSE IF "tp1_hit" \in rec THEN s.entry_price
                    ELSE s.stop_loss

\* the part of C1 the replay does satisfy: the stop follows the last tp1_hit
\* or tp2_hit of the returned event list
C1_StopFollowsLastHit ==
    \A t \in Threads :
        StateAnswered(t) =>
            LET s == SignalOf(req[t].data.message_id)
                evs == req[t].resp.events
                hits == {i \in 1 .. Len(evs) : evs[i].event_type \in {"tp1_hit", "tp2_hit"}}
                last == CHOOSE i \in hits : \A j \in hits : j <= i
            IN  req[t].resp.stop_loss =
                    IF hits = {} THEN s.stop_loss
                    ELSE IF evs[last].event_type = "tp1_hit" THEN s.entry_price
                    ELSE s.tp1

\* C2: the derived status of every get_signal_state response is completed if
\* tp3_hit is recorded, active_partial if tp1_hit or tp2_hit is recorded and
\* tp3_hit is not, and otherwise the stored status; once tp1_hit, tp2_hit and
\* tp3_hit are all recorded the status is completed and tp1, tp2, tp3 are null.
C2_DerivedStatus ==
    \A t \in Threads :
        StateAnswered(t) =>
            LET s == SignalOf(req[t].data.message_id)
                rec == Recorded(s.id)
                r == req[t].resp
            IN  /\ "tp3_hit" \in rec => r.status = "completed"
                /\ "tp3_hit" \notin rec /\ rec \cap {"tp1_hit", "tp2_hit"} # {}
                     => r.status = "active_partial"
                /\ rec \cap {"tp1_hit", "tp2_hit", "tp3_hit"} = {}
                     => r.status = s.status
                /\ {"tp1_hit", "tp2_hit", "tp3_hit"} \subseteq rec
                     => /\ r.status = "completed"
                        /\ r.tp1 = Null /\ r.tp2 = Null /\ r.tp3 = Null

\* tp1_hit, tp2_hit and tp3_hit were all reported and the state was read
C2_Witness ==
    \E t \in Threads :
        /\ StateAnswered(t)
        /\ {"tp1_hit", "tp2_hit", "tp3_hit"}
             \subseteq Recorded(SignalOf(req[t].data.message_id).id)
        /\ req[t].resp.status = "completed"

\* C3: in every get_signal_state response each target tp_i is null if
\* tp{i}_hit is recorded (or the signal was stored without the target) and is
\* the stored tp_i otherwise; the hit of one target nulls no other target.
C3_RemainingTargets ==
    \A t \in Threads :
        StateAnswered(t) =>
            LET s == SignalOf(req[t].data.message_id)
                rec == Recorded(s.id)
                r == req[t].resp
            IN  /\ r.tp1 = IF "tp1_hit" \in rec THEN Null ELSE s.tp1
                /\ r.tp2 = IF "tp2_hit" \in rec THEN Null ELSE s.tp2
                /\ r.tp3 = IF "tp3_hit" \in rec THEN Null ELSE s.tp3

\* only tp2_hit is recorded: tp2 is null, tp1 and tp3 are still live
C3_Witness ==
    \E t \in Threads :
        /\ StateAnswered(t)
        /\ Recorded(SignalOf(req[t].data.message_id).id) = {"order_placed", "tp2_hit"}
        /\ req[t].resp.tp2 = Null
        /\ req[t].resp.tp1 = 3
        /\ req[t].resp.tp3 = 5

\* the fixed mapping of event types to stored statuses
MappedStatus(event_type, old) ==
    CASE event_type = "order_placed" -> "active"
      [] event_type = "tp3_hit" -> "completed"
      [] event_type = "sl_hit" -> "completed"
      [] event_type = "manual_close" -> "completed"
      [] event_type = "error" -> "failed"
      [] OTHER -> old

\* the stored status of the signal with an id in a table
StatusIn(rows, id) ==
    (CHOOSE s \in Range(rows) : s.id = id).status

\* C4: a successful report_event records the event and sets the stored status
\* of the resolved Signal by the mapping order_placed -> active; tp3_hit,
\* sl_hit, manual_close -> completed; error -> failed; any other event type
\* leaves the stored status unchanged.
C4_StatusMapping ==
    [][\A t \in Threads :
          (/\ req[t].op = "report_event"
           /\ req[t].pc = "commit"
           /\ req'[t].pc = "done"
           /\ req'[t].resp.code = 200)
          => /\ events' = Append(events,
                     [signal_id |-> req[t].signal_id,
                      event_type |-> req[t].data.event_type,
                      timestamp |-> events'[Len(events')].timestamp])
             /\ StatusIn(signals', req[t].signal_id)
                  = MappedStatus(req[t].data.event_type,
                                 StatusIn(signals, req[t].signal_id))]_vars

\* tp1_hit was reported after order_placed and the stored status is still active
C4_Witness ==
    \E t \in Threads :
        /\ req[t].op = "report_event"
        /\ req[t].pc = "done"
        /\ req[t].resp.code = 200
        /\ req[t].data.event_type = "tp1_hit"
        /\ Len(events) = 2
        /\ events[1].event_type = "order_placed"
        /\ StatusIn(signals, req[t].signal_id) = "active"

----------------------------------------------------------------------------
(* Claims about add_signal and report_event, one request at a time (SpecSeq) *)

\* the columns of a Signal that add_signal sets from the request body
SameOrder(s, d) ==
    /\ s.id = d.id
    /\ s.message_id = d.message_id
    /\ s.symbol = d.symbol
    /\ s.action = d.action
    /\ s.entry_price = d.entry_price
    /\ s.stop_loss = d.stop_loss
    /\ s.tp1 = d.tp1
    /\ s.tp2 = (IF d.tp2 = Missing THEN Null ELSE d.tp2)
    /\ s.tp3 = (IF d.tp3 = Missing THEN Null ELSE d.tp3)

RowsWithMid(rows, mid) == {i \in 1 .. Len(rows) : rows[i].message_id = mid}

\* the step in which add_signal of thread t is answered
AddAnswered(t) ==
    /\ req[t].op = "add_signal"
    /\ req[t].pc # "done"
    /\ req'[t].pc = "done"

\* C5: of two sequential add_signal calls with the same message_id the first
\* succeeds (200) and the second is answered 409; afterwards the store holds
\* exactly one Signal with that message_id, with the fields of the first call.
C5_SecondInsertRejected ==
    [][\A t \in Threads :
          LET d == req[t].data IN
          /\ AddAnswered(t) /\ RowsWithMid(signals, d.message_id) # {}
               => /\ req'[t].resp.code = 409
                  /\ signals' = signals
                  /\ Cardinality(RowsWithMid(signals', d.message_id)) = 1
          /\ AddAnswered(t) /\ req'[t].resp.code = 200
               => /\ RowsWithMid(signals, d.message_id) = {}
                  /\ Cardinality(RowsWithMid(signals', d.message_id)) = 1
                  /\ SameOrder(signals'[Len(signals')], d)
          /\ (/\ req[t].op = "add_signal"
              /\ req[t].pc = "insert"
              /\ req'[t] # req[t]
              /\ RowsWithMid(signals, d.message_id) = {}
              /\ \A i \in 1 .. Len(signals) : signals[i].id # d.id
              /\ d.symbol # NoId)
               => req'[t].pc = "commit"
          /\ req[t].op = "add_signal" /\ req[t].pc = "commit" /\ req'[t] # req[t]
               => req'[t].resp.code = 200]_vars

\* the second call, with another id and another order, was answered 409 and
\* the stored Signal is not the one it carried
C5_Witness ==
    \E t \in Threads :
        /\ req[t].op = "add_signal"
        /\ req[t].pc = "done"
        /\ req[t].resp.code = 409
        /\ \E i \in 1 .. Len(signals) :
            /\ signals[i].message_id = req[t].data.message_id
            /\ signals[i].id # req[t].data.id
            /\ signals[i].symbol # req[t].data.symbol

\* a thread holds the answer of a report_event request
ReportAnswered(t) ==
    /\ req[t].op = "report_event"
    /\ req[t].pc = "done"

\* the Signal a report_event body designates: the one with the given
\* signal_id when it exists, otherwise the one with the given message_id
Designated(d) ==
    IF d.signal_id # NoId /\ \E s \in Range(signals) : s.id = d.signal_id
    THEN CHOOSE s \in Range(signals) : s.id = d.signal_id
    ELSE IF d.message_id # Null THEN SignalOf(d.message_id)
    ELSE NoRow

\* C9: report_event attaches the event to the Signal whose id is the given
\* signal_id whenever it exists; otherwise, when the given message_id
\* identifies a Signal, to that Signal, both when signal_id is absent and when
\* it matches no Signal.
C9_Resolution ==
    \A t \in Threads :
        (/\ ReportAnswered(t)
         /\ req[t].data.event_type # NoId
         /\ Designated(req[t].data) # NoRow)
        => /\ req[t].resp.code = 200
           /\ Len(events) > 0
           /\ events[Len(events)].signal_id = Designated(req[t].data).id
           /\ events[Len(events)].event_type = req[t].data.event_type

\* the resolution the code does perform: as C9 for every message_id but 0
C9_ResolutionNonZero ==
    \A t \in Threads :
        (/\ ReportAnswered(t)
         /\ req[t].data.event_type # NoId
         /\ Designated(req[t].data) # NoRow
         /\ (req[t].data.message_id = 0
               => \E s \in Range(signals) : s.id = req[t].data.signal_id))
        => /\ req[t].resp.code = 200
           /\ Len(events) > 0
           /\ events[Len(events)].signal_id = Designated(req[t].data).id
           /\ events[Len(events)].event_type = req[t].data.event_type

\* the answer C10 expects for a report_event body, 200 where it expects none
ExpectedCode(d) ==
    IF d.event_type = NoId THEN 400
    ELSE IF d.signal_id = NoId /\ d.message_id = Null THEN 400
    ELSE IF Designated(d) = NoRow THEN 404
    ELSE 200

\* C10: report_event answers 400 when event_type is missing or when neither
\* signal_id nor message_id is given, and 404 when neither given id resolves
\* to a Signal; in these cases no TradeEvent is appended and no Signal's
\* status or updated_at changes.
C10_Rejections ==
    /\ [](\A t \in Threads :
            ReportAnswered(t) /\ ExpectedCode(req[t].data) # 200
                => req[t].resp.code = ExpectedCode(req[t].data))
    /\ [][\A t \in Threads :
            (/\ req'[t].op = "report_event"
             /\ req'[t] # req[t]
             /\ ExpectedCode(req'[t].data) # 200)
            => signals' = signals /\ events' = events]_vars

\* what holds of the rejections: C10 for every message_id but 0, and no
\* rejected request writes to the store
C10_RejectionsNonZero ==
    /\ [](\A t \in Threads :
            (/\ ReportAnswered(t)
             /\ ExpectedCode(req[t].data) # 200
             /\ (req[t].data.message_id = 0 => req[t].data.signal_id # NoId))
                => req[t].resp.code = ExpectedCode(req[t].data))
    /\ [](\A t \in Threads :
            ReportAnswered(t) /\ ExpectedCode(req[t].data) # 200
                => req[t].resp.code \in {400, 404})
    /\ [][\A t \in Threads :
            (/\ req'[t].op = "report_event"
             /\ req'[t] # req[t]
             /\ ExpectedCode(req'[t].data) # 200)
            => signals' = signals /\ events' = events]_vars

----------------------------------------------------------------------------
(* Claims about concurrent requests (Spec, SpecFault) *)

RECURSIVE StatusAfter(_, _)
StatusAfter(status, evs) ==
    IF evs = <<>> THEN status
    ELSE StatusAfter(MappedStatus(Head(evs).event_type, status), Tail(evs))

\* C7: report_event records the event and applies its status update as one
\* unit: the committed tables, which are all a query of a concurrent reader
\* can see, never hold the event row without the status update nor the status
\* update without the event row, and a report_event that fails after the
\* INSERT leaves neither.
C7_EventAndStatusAtomic ==
    /\ [](\A i \in 1 .. Len(signals) :
            signals[i].status
              = StatusAfter("pending", EventsOf(events, signals[i].id)))
    /\ [][/\ events' # events
            => \E t \in Threads :
                 /\ req[t].op = "report_event"
                 /\ req'[t].pc = "done"
                 /\ req'[t].resp.code = 200
                 /\ Len(events') = Len(events) + 1
                 /\ StatusIn(signals', req[t].signal_id)
                      = MappedStatus(req[t].data.event_type,
                                     StatusIn(signals, req[t].signal_id))
          /\ (\E i \in 1 .. Len(signals) : signals'[i].status # signals[i].status)
            => events' # events
          /\ \A t \in Threads :
               (/\ req[t].op = "report_event"
                /\ req[t].pc # "done"
                /\ req'[t].pc = "done"
                /\ req'[t].resp.code # 200)
               => signals' = signals /\ events' = events]_vars

\* a get_signal_state has read the Signal row and is about to read the events
\* while a report_event holds an order_placed event and the status update in
\* its open transaction
C7_Witness ==
    \E t, u \in Threads :
        /\ req[t].op = "report_event"
        /\ req[t].pc = "commit"
        /\ txOwner = t
        /\ Len(txEvents) = Len(events) + 1
        /\ StatusIn(txSignals, req[t].signal_id) = "active"
        /\ StatusIn(signals, req[t].signal_id) = "pending"
        /\ req[u].op = "get_signal_state"
        /\ req[u].pc = "events"
        /\ req[u].signal_id = req[t].signal_id

\* C8: a get_signal_state response is computed from one snapshot of the
\* store: the stored status it falls back to and the events it lists belong to
\* the same store state; it never returns status pending with an event list
\* that holds an event that changes the stored status, such as order_placed.
C8_ConsistentSnapshot ==
    \A t \in Threads :
        (/\ StateAnswered(t)
         /\ \A i \in 1 .. Len(req[t].resp.events) :
              req[t].resp.events[i].event_type \notin {"tp1_hit", "tp2_hit", "tp3_hit"})
        => (req[t].resp.status = "pending"
              <=> \A i \in 1 .. Len(req[t].resp.events) :
                    MappedStatus(req[t].resp.events[i].event_type, "pending") = "pending")

----------------------------------------------------------------------------
(* Claims about get_pending_signals, under SpecPending *)

PendingAnswered(t) ==
    req[t].op = "get_pending_signals" /\ req[t].pc = "done"

StoredPending == {s \in Range(signals) : s.status = "pending"}

StoredWithId(id) == CHOOSE s \in Range(signals) : s.id = id

\* C11: a get_pending_signals response lists exactly the stored signals of
\* status 'pending', oldest creation time first, cut to the 10 oldest; a
\* signal of another status is never listed; the call changes no row.
C11_PendingPage ==
    /\ [](PendingAnswered(1) =>
            LET r == req[1].resp.signals IN
            /\ req[1].resp.code = 200
            /\ Len(r) = IF Cardinality(StoredPending) < 10
                        THEN Cardinality(StoredPending) ELSE 10
            /\ \A i \in 1 .. Len(r) :
                \E s \in StoredPending :
                    /\ s.id = r[i].id
                    /\ s.message_id = r[i].message_id
                    /\ <<s.symbol, s.action>> = <<r[i].symbol, r[i].action>>
                    /\ <<s.entry_price, s.stop_loss, s.tp1, s.tp2, s.tp3>> =
                       <<r[i].entry_price, r[i].stop_loss, r[i].tp1, r[i].tp2,
                         r[i].tp3>>
            /\ \A i, j \in 1 .. Len(r) :
                i < j =>
                    /\ r[i].id # r[j].id
                    /\ StoredWithId(r[i].id).created_at <=
                       StoredWithId(r[j].id).created_at
            /\ \A s \in StoredPending :
                (\A i \in 1 .. Len(r) : r[i].id # s.id) =>
                    \A i \in 1 .. Len(r) :
                        StoredWithId(r[i].id).created_at <= s.created_at)
    /\ [][(req[1].pc = "idle" /\ req'[1].op = "get_pending_signals") =>
            (signals' = signals /\ events' = events)]_vars

\* a full page: more than 10 signals are pending and an older signal that
\* is no longer pending is left out
C11_Witness ==
    /\ PendingAnswered(1)
    /\ Len(req[1].resp.signals) = 10
    /\ Cardinality(StoredPending) > 10
    /\ \E s \in Range(signals) :
        /\ s.status \in {"active", "completed", "failed"}
        /\ s.created_at <= StoredWithId(req[1].resp.signals[1].id).created_at

----------------------------------------------------------------------------
(* Claims about the replay of get_signal_state, under SpecReplay *)

C13_AscendingTimestamp ==
    StateAnswered(1) =>
        LET r == req[1].resp.events
            rec == EventsOf(events, req[1].signal_id)
        IN  /\ Len(r) = Len(rec)
            /\ \A e \in Range(rec) :
                Cardinality({i \in 1 .. Len(r) : r[i] = e}) =
                Cardinality({i \in 1 .. Len(rec) : rec[i] = e})
            /\ \A i, j \in 1 .. Len(r) : i < j => r[i].timestamp <= r[j].timestamp

----------------------------------------------------------------------------
(* Claims about TradingSignal.is_valid, under SpecValid *)

\* a required field is present: a non-empty pair, a side, a price.  The data
\* model has positive prices only; is_valid takes a price of 0 for absent.
RequiredPresent(s) ==
    /\ s.pair \notin {NoId, ""}
    /\ s.action # NoId
    /\ s.entry_price > 0
    /\ s.stop_loss > 0
    /\ s.take_profit_1 > 0

\* the last target before target 3 that is present
TargetBelow3(s) ==
    IF s.take_profit_2 # Null THEN s.take_profit_2 ELSE s.take_profit_1

\* C14: is_valid of a BUY order is true if and only if all required fields
\* are present and stop_loss < entry_price < take_profit_1 < take_profit_2
\* (if present) < take_profit_3 (if present), every comparison strict.
C14_BuyValid ==
    (lst.pc = "validated" /\ lst.signal.action = "BUY") =>
        (lst.valid <=>
            /\ RequiredPresent(lst.signal)
            /\ lst.signal.stop_loss < lst.signal.entry_price
            /\ lst.signal.entry_price < lst.signal.take_profit_1
            /\ lst.signal.take_profit_2 # Null =>
                 lst.signal.take_profit_1 < lst.signal.take_profit_2
            /\ lst.signal.take_profit_3 # Null =>
                 TargetBelow3(lst.signal) < lst.signal.take_profit_3)

\* a BUY order with targets 1 and 3 only is found valid
C14_Witness ==
    /\ lst.pc = "validated"
    /\ lst.signal.action = "BUY"
    /\ lst.valid
    /\ lst.signal.take_profit_2 = Null
    /\ lst.signal.take_profit_3 # Null

\* C15: is_valid of a SELL order is true if and only if all required fields
\* are present and take_profit_3 (if present) < take_profit_2 (if present) <
\* take_profit_1 < entry_price < stop_loss, every comparison strict.
C15_SellValid ==
    (lst.pc = "validated" /\ lst.signal.action = "SELL") =>
        (lst.valid <=>
            /\ RequiredPresent(lst.signal)
            /\ lst.signal.take_profit_1 < lst.signal.entry_price
            /\ lst.signal.entry_price < lst.signal.stop_loss
            /\ lst.signal.take_profit_2 # Null =>
                 lst.signal.take_profit_2 < lst.signal.take_profit_1
            /\ lst.signal.take_profit_3 # Null =>
                 lst.signal.take_profit_3 < TargetBelow3(lst.signal))

\* a SELL order with all three targets is found valid
C15_Witness ==
    /\ lst.pc = "validated"
    /\ lst.signal.action = "SELL"
    /\ lst.valid
    /\ lst.signal.take_profit_2 # Null
    /\ lst.signal.take_profit_3 # Null

----------------------------------------------------------------------------
(* Claims about parse_signal and the listener, under SpecParser *)

Called(f) == \E i \in 1 .. Len(lst.calls) : lst.calls[i] = f

PatternsRun == Called("is_new_signal") \/ Called("parse_signal_with_regex")

\* the prices of an order are in the order its side requires
PriceOrder(action, entry, stop, tp1, tp2, tp3) ==
    LET below3 == IF tp2 # Null THEN tp2 ELSE tp1 IN
    IF action = "BUY"
    THEN /\ stop < entry /\ entry < tp1
         /\ tp2 # Null => tp1 < tp2
         /\ tp3 # Null => below3 < tp3
    ELSE /\ action = "SELL"
         /\ tp1 < entry /\ entry < stop
         /\ tp2 # Null => tp2 < tp1
         /\ tp3 # Null => tp3 < below3

\* the AI-assisted strategy gave a structured order: validate_with_openai
\* returned an object and a TradingSignal was built from it
Structured == lst.openai_result # NoResult /\ lst.signal # NoSignal

\* C16: parse_signal(text, is_reply=True) returns no signal for every text
\* and invokes neither strategy; the listener sends no add_signal request for
\* a message that is a reply.
C16_ReplyIgnored ==
    lst.is_reply =>
        /\ lst.calls = <<>>
        /\ lst.result = NoSignal
        /\ lst.sent = <<>>
        /\ lst.pc \in {"parse", "returned", "done"}

\* parse_signal has returned for a reply whose text the patterns would accept
C16_Witness ==
    /\ lst.is_reply
    /\ lst.caller = "direct"
    /\ lst.pc = "returned"
    /\ lst.text = RxText

\* C17: when the AI-assisted strategy returns a structured order that fails
\* is_valid, parse_signal returns no signal and does not run the
\* pattern-based strategy; the pattern-based strategy runs only when the AI
\* strategy gave no structured result or is not configured.
C17_NoFallThroughOnInvalid ==
    /\ (lst.pc = "returned" /\ Structured /\ ~lst.valid) =>
            lst.result = NoSignal /\ ~PatternsRun
    /\ PatternsRun => (~lst.openai_client \/ ~Structured)

\* what parse_signal does with a structured order that fails is_valid: it
\* goes on to the pattern pre-filter
C17_FallsThroughOnInvalid ==
    (lst.pc = "returned" /\ Structured /\ ~lst.valid) => Called("is_new_signal")

\* C18: no failure of the AI-assisted strategy leaves parse_signal as an
\* exception: after a raised call, an unparseable reply, a reply that says
\* invalid, or a reply whose required fields are missing, null or no numbers,
\* the pattern-based strategy is tried on the text.
C18_AiFailureFallsBack ==
    /\ lst.pc # "raised"
    /\ (lst.pc = "returned" /\ Called("openai") /\ ~Structured) =>
            Called("is_new_signal")

\* the same for every failure but a null in a required number
C18_FallsBackUnlessNull ==
    /\ lst.pc = "raised" =>
            \E f \in {"entry_price", "stop_loss", "tp1"} : lst.openai_result[f] = Null
    /\ (lst.pc = "returned" /\ Called("openai") /\ ~Structured) =>
            Called("is_new_signal")

\* C19: the AI-assisted strategy is tried first and the first success wins:
\* a structured order that passes is_valid is returned without the pattern
\* pre-filter or the regex extraction being run; without a configured AI
\* strategy only the pattern-based strategy runs.
C19_StrategyOrder ==
    (lst.pc = "returned" /\ ~lst.is_reply) =>
        /\ lst.openai_client =>
            /\ lst.calls # <<>>
            /\ lst.calls[1] = "openai"
            /\ \A i \in 2 .. Len(lst.calls) : lst.calls[i] # "openai"
        /\ (lst.openai_client /\ Structured /\ lst.valid) =>
            /\ lst.result = lst.signal
            /\ lst.calls = <<"openai">>
        /\ ~lst.openai_client =>
            /\ ~Called("openai")
            /\ lst.calls[1] = "is_new_signal"
        /\ \A i, j \in 1 .. Len(lst.calls) :
            (lst.calls[i] = "is_new_signal" /\ lst.calls[j] = "parse_signal_with_regex")
                => i < j

\* the AI order is returned for a text the patterns would also have parsed
C19_Witness ==
    /\ lst.pc = "returned"
    /\ lst.openai_client
    /\ lst.calls = <<"openai">>
    /\ lst.result = FromOpenai(AiSell)
    /\ lst.text = RxText

\* C20: every order parse_signal returns satisfies is_valid, whichever
\* strategy produced it, so every add_signal request of the listener carries
\* prices in the order its side requires.
C20_ReturnedOrdersValid ==
    /\ (lst.pc = "returned" /\ lst.result # NoSignal) =>
            /\ lst.result.pair \notin {NoId, ""}
            /\ PriceOrder(lst.result.action, lst.result.entry_price,
                          lst.result.stop_loss, lst.result.take_profit_1,
                          lst.result.take_profit_2, lst.result.take_profit_3)
    /\ lst.sent # <<>> =>
            PriceOrder(lst.sent[1].action, lst.sent[1].entry_price,
                       lst.sent[1].stop_loss, lst.sent[1].tp1,
                       lst.sent[1].tp2, lst.sent[1].tp3)

\* the listener has sent an order that the patterns extracted
C20_Witness ==
    /\ lst.pc = "posted"
    /\ lst.sent = <<SignalData(RxBuy)>>
    /\ Called("parse_signal_with_regex")

----------------------------------------------------------------------------
(* Claims about the pattern pre-filter, under SpecParser *)

PreFilterAsStated(text) ==
    /\ text.phrase \in {"BUY", "SELL"} \/ text.marker # "none"
    /\ ~text.reply
    /\ text.pair # NoId
    /\ text.entry # Null /\ text.sl # Null
    /\ text.numbered # <<>> \/ text.simple # Null

\* ... with the words `limit order` without a side accepted under (a)
PreFilterWithBarePhrase(text) ==
    /\ text.phrase \in {"BUY", "SELL", "bare"} \/ text.marker # "none"
    /\ ~text.reply
    /\ text.pair # NoId
    /\ text.entry # Null /\ text.sl # Null
    /\ text.numbered # <<>> \/ text.simple # Null

\* C22 as stated: the pattern-based strategy yields no signal, without running
\* the regex extraction, unless the text has (a) a '<SIDE> LIMIT [ORDER]'
\* phrase or a green/red marker, (b) no reply vocabulary, (c) a 6-letter
\* instrument token, (d) an entry and a stop-loss token, (e) a take-profit
\* token.
C22_PreFilter ==
    /\ Called("parse_signal_with_regex") => PreFilterAsStated(lst.text)
    /\ (lst.pc = "returned" /\ Called("is_new_signal")
            /\ ~PreFilterAsStated(lst.text)) => lst.result = NoSignal

\* C22, amended: the same with (a) a '<SIDE> LIMIT [ORDER]' phrase, the words
\* 'limit order' without a side, or a green/red marker; the extraction runs
\* exactly for the texts that pass.
C22_PreFilterWithBarePhrase ==
    /\ Called("parse_signal_with_regex") => PreFilterWithBarePhrase(lst.text)
    /\ (lst.pc = "returned" /\ Called("is_new_signal")
            /\ ~PreFilterWithBarePhrase(lst.text)) =>
                /\ lst.result = NoSignal
                /\ ~Called("parse_signal_with_regex")
    /\ (lst.pc = "returned" /\ Called("is_new_signal")
            /\ PreFilterWithBarePhrase(lst.text)) =>
                Called("parse_signal_with_regex")

\* the pre-filter turned down a text that lacks only the take-profit token
C22_Witness ==
    /\ lst.pc = "returned"
    /\ ~lst.is_reply
    /\ lst.text = [RxText EXCEPT !.numbered = <<>>]
    /\ Called("is_new_signal")
    /\ ~Called("parse_signal_with_regex")
    /\ lst.result = NoSignal

----------------------------------------------------------------------------
(* Claims about the listener's add_signal request, under SpecParser *)

\* C23: for each inbound message _process_message issues at most one
\* add_signal request: none when the message is empty, is a reply or yields no
\* valid order, and exactly one, never repeated whatever the server answers,
\* when an order is extracted.
C23_OneRequestPerMessage ==
    /\ Len(lst.sent) <= 1
    /\ lst.caller = "direct" => lst.sent = <<>>
    /\ (lst.caller = "listener" /\ (lst.text.blank \/ lst.is_reply)) =>
            lst.sent = <<>> /\ lst.calls = <<>> /\ lst.pc = "done"
    /\ (lst.caller = "listener" /\ lst.pc = "done") =>
            IF lst.result # NoSignal
            THEN lst.sent = <<SignalData(lst.result)>>
            ELSE lst.sent = <<>>

\* the server answered 500 to the one request of a message and the listener
\* is done with the message
C23_Witness ==
    /\ lst.caller = "listener"
    /\ lst.pc = "done"
    /\ lst.response = 500
    /\ lst.sent = <<SignalData(RxBuy)>>

\* C26: the listener treats a 409 answer of add_signal exactly like a 200:
\* _send_signal_to_server reports success and signals_sent is incremented;
\* for any other status code and for a transport error it reports failure and
\* signals_sent is not incremented.
C26_ConflictCountsAsSent ==
    /\ [](lst.pc = "done" /\ lst.sent # <<>> =>
            (lst.ok <=> lst.response \in {200, 409}))
    /\ [][/\ (lst.pc = "posted" /\ lst'.pc = "done") =>
                lst'.signals_sent =
                    lst.signals_sent + (IF lst'.response \in {200, 409} THEN 1 ELSE 0)
          /\ ~(lst.pc = "posted" /\ lst'.pc = "done") =>
                lst'.signals_sent = lst.signals_sent]_vars

\* a 409 was answered and counted
C26_Witness ==
    /\ lst.pc = "done"
    /\ lst.sent # <<>>
    /\ lst.response = 409
    /\ lst.ok
    /\ lst.signals_sent = 1

\* C30: no order returned by parse_signal has a gap in its targets:
\* take_profit_3 is present only if take_profit_2 is, also when the text
\* carries numbered tokens for the levels 1 and 3 only.
C30_NoGapInTargets ==
    (lst.pc = "returned" /\ lst.result # NoSignal) =>
        (lst.result.take_profit_3 # Null => lst.result.take_profit_2 # Null)

\* what holds of the targets of a returned order: the first is present and
\* the present ones are in the order of the side
C30_FirstTargetPresent ==
    (lst.pc = "returned" /\ lst.result # NoSignal) =>
        /\ lst.result.take_profit_1 # Null
        /\ PriceOrder(lst.result.action, lst.result.entry_price,
                      lst.result.stop_loss, lst.result.take_profit_1,
                      lst.result.take_profit_2, lst.result.take_profit_3)

----------------------------------------------------------------------------
(* Claims about add_signal's answers, under SpecAdd *)

AddDone(t) == req[t].op = "add_signal" /\ req[t].pc = "done"

\* C24: whenever add_signal answers 409, a Signal with the request's
\* message_id is already in the store, so that a caller who takes 409 for
\* already-accepted never loses a signal; a request that stores nothing for
\* another reason than a duplicate message_id is never answered 409.
C24_ConflictMeansStored ==
    \A t \in Threads :
        (AddDone(t) /\ req[t].resp.code = 409) =>
            RowsWithMid(signals, req[t].data.message_id) # {}

\* what a 409 of add_signal means: one of the constraints of table signals
\* failed, which may be the primary key or a NOT NULL
C24_ConflictMeansConstraint ==
    \A t \in Threads :
        (AddDone(t) /\ req[t].resp.code = 409) =>
            \/ RowsWithMid(signals, req[t].data.message_id) # {}
            \/ \E s \in Range(signals) : s.id = req[t].data.id
            \/ req[t].data.symbol = NoId

\* the bodies C25 says are answered 400
Rejected400(d) ==
    \/ \E f \in {"id", "symbol", "action", "raw_message"} : d[f] = MissingStr
    \/ \E f \in {"message_id", "channel_id", "entry_price", "stop_loss", "tp1"} :
            d[f] \in {Missing, Null, BadNum}
    \/ d.tp2 = BadNum
    \/ d.tp3 = BadNum
    \/ d.action \notin {"BUY", "SELL"}

\* C25: add_signal answers 400 and leaves the store unchanged whenever a
\* required field is absent, a numeric field (a given tp2/tp3 included) is
\* not parseable as a number, or action is neither BUY nor SELL; a request
\* with tp2 and tp3 omitted is accepted.
C25_MalformedRejected ==
    /\ [](\A t \in Threads :
            (AddDone(t) /\ Rejected400(req[t].data)) => req[t].resp.code = 400)
    /\ [][\A t \in Threads :
            (/\ req'[t].op = "add_signal"
             /\ req'[t] # req[t]
             /\ Rejected400(req'[t].data))
            => signals' = signals /\ events' = events /\ txOwner' = 0]_vars
    /\ [](\A t \in Threads :
            LET d == req[t].data IN
            (AddDone(t) /\ d.tp2 = Missing /\ d.tp3 = Missing /\ ~Rejected400(d)) =>
                \/ /\ req[t].resp.code = 200
                   /\ \E s \in Range(signals) :
                        SameOrder(s, d) /\ s.tp2 = Null /\ s.tp3 = Null
                \/ /\ req[t].resp.code = 409
                   /\ \E s \in Range(signals) :
                        s.id = d.id \/ s.message_id = d.message_id)

\* a body whose tp3 is no number was answered 400 while a Signal was stored
\* already, and a body without tp2 and tp3 had been stored
C25_Witness ==
    \E t \in Threads :
        /\ AddDone(t)
        /\ req[t].data.tp3 = BadNum
        /\ req[t].resp.code = 400
        /\ \E s \in Range(signals) : s.symbol = Order1.symbol /\ s.tp2 = Null

----------------------------------------------------------------------------
(* Claims about what the requests leave alone, under SpecSeq *)

\* the fields of a Signal that no request changes
Frozen(s, r) ==
    \A f \in {"id", "message_id", "channel_id", "symbol", "action", "entry_price",
              "stop_loss", "tp1", "tp2", "tp3", "raw_message"} : s[f] = r[f]

\* the step is one of the request of thread t
StepOf(t, op) == req[t].op = op /\ req'[t] # req[t]

\* C27: once inserted, a Signal is never deleted and its id, message_id,
\* channel_id, symbol, action, entry_price, stop_loss, tp1, tp2, tp3 and
\* raw_message never change; a report_event changes only the status and
\* updated_at of the one Signal it resolved and leaves every other Signal
\* untouched.
C27_SignalsFrame ==
    [][/\ Len(signals') >= Len(signals)
       /\ \A i \in 1 .. Len(signals) : Frozen(signals[i], signals'[i])
       /\ \A t \in Threads :
            /\ StepOf(t, "report_event") =>
                /\ Len(signals') = Len(signals)
                /\ \A i \in 1 .. Len(signals) :
                    \/ signals'[i] = signals[i]
                    \/ /\ signals[i].id = req[t].signal_id
                       /\ signals'[i] =
                            [signals[i] EXCEPT !.status = signals'[i].status,
                                               !.updated_at = signals'[i].updated_at]
            /\ (StepOf(t, "add_signal") \/ StepOf(t, "get_signal_state")) =>
                \A i \in 1 .. Len(signals) : signals'[i] = signals[i]]_vars

\* a report_event has changed the status of one of two stored Signals and the
\* other one is as it was inserted
C27_Witness ==
    \E i, j \in 1 .. Len(signals) :
        /\ i # j
        /\ signals[i].status = "active"
        /\ signals[i].updated_at > signals[i].created_at
        /\ signals[j].status = "pending"
        /\ signals[j].updated_at = signals[j].created_at

----------------------------------------------------------------------------
(* Claims about stats, under SpecStats *)

StatsAnswered(t) == req[t].op = "stats" /\ req[t].pc = "done"

\* the answer of stats counts the store as it is
CountsStore(s) ==
    /\ s.pending_signals = CountStatus(signals, "pending")
    /\ s.active_signals = CountStatus(signals, "active")
    /\ s.completed_signals = CountStatus(signals, "completed")
    /\ s.failed_signals = CountStatus(signals, "failed")
    /\ s.pending_signals + s.active_signals + s.completed_signals
         + s.failed_signals = s.total_signals
    /\ s.total_events = Len(events)

\* C29: in every reachable store state, the store with no Signal included,
\* stats reports for each of pending, active, completed and failed the number
\* of Signals stored with that status, the four counts sum to total_signals,
\* and total_events is the number of TradeEvents recorded.
C29_StatsCounts ==
    \A t \in Threads : StatsAnswered(t) => CountsStore(req[t].resp.stats)

\* what stats answers: the counts of a store that holds a Signal; over the
\* store with no Signal the four counts by status are null, total_signals
\* and total_events are 0
C29_StatsCountsUnlessEmpty ==
    \A t \in Threads :
        StatsAnswered(t) =>
            LET s == req[t].resp.stats IN
            IF signals # <<>>
            THEN CountsStore(s)
            ELSE /\ s.total_signals = 0
                 /\ s.total_events = 0
                 /\ s.pending_signals = Null /\ s.active_signals = Null
                 /\ s.completed_signals = Null /\ s.failed_signals = Null

----------------------------------------------------------------------------
(* Claims about the life cycle of the stored status, under SpecReplay *)

\* C31: once sl_hit or manual_close is recorded for a Signal, every
\* get_signal_state response for it reports status completed, whichever of
\* tp1_hit and tp2_hit were recorded before.
C31_CompletedAfterClose ==
    \A t \in Threads :
        StateAnswered(t) =>
            LET s == SignalOf(req[t].data.message_id)
                rec == Recorded(s.id)
            IN  rec \cap {"sl_hit", "manual_close"} # {} => req[t].resp.status = "completed"

\* what get_signal_state does after a close: with no tp1_hit, tp2_hit or
\* tp3_hit recorded it answers the stored status
C31_StoredStatusWithoutHits ==
    \A t \in Threads :
        StateAnswered(t) =>
            LET s == SignalOf(req[t].data.message_id)
                rec == Recorded(s.id)
            IN  rec \cap {"tp1_hit", "tp2_hit", "tp3_hit"} = {} => req[t].resp.status = s.status

\* C32: completed and failed are terminal, no later event of any type moves
\* the stored status of a Signal away from them.
C32_TerminalStatuses ==
    [][\A i \in 1 .. Len(signals) :
          (/\ i <= Len(signals')
           /\ signals[i].status \in {"completed", "failed"})
          => signals'[i].status = signals[i].status]_vars

\* the event types whose report changes the stored status
StatusEvents == {"order_placed", "tp3_hit", "sl_hit", "manual_close", "error"}

\* C33: a Signal is stored with status pending, a Signal whose status is not
\* pending never becomes pending again, and in every state a Signal is
\* pending exactly when no order_placed, tp3_hit, sl_hit, manual_close or
\* error event is recorded for it.
C33_PendingUntilReported ==
    /\ [](\A s \in Range(signals) :
            s.status = "pending" <=> Recorded(s.id) \cap StatusEvents = {})
    /\ [][/\ \A i \in 1 .. Len(signals') :
                i > Len(signals) => signals'[i].status = "pending"
          /\ \A i \in 1 .. Len(signals) :
                (i <= Len(signals') /\ signals[i].status # "pending")
                => signals'[i].status # "pending"]_vars

\* a Signal still pending after two events of types outside the mapping
C33_Witness ==
    \E s \in Range(signals) :
        /\ s.status = "pending"
        /\ Cardinality(Recorded(s.id)) = 2
        /\ Len(events) = 2

----------------------------------------------------------------------------
(* Claims about the Signal an event is recorded for, under SpecSeq *)

StoredIds == {s.id : s \in Range(signals)}

\* C34: the signal_id of every recorded event is the id of a stored Signal;
\* an event reported by message_id only, or with an unknown signal_id and a
\* valid message_id, is recorded for the Signal of that message_id; and the
\* event list get_signal_state answers for a message_id holds every event
\* recorded for that Signal.
C34_EventsBelongToSignals ==
    /\ \A i \in 1 .. Len(events) : events[i].signal_id \in StoredIds
    /\ \A t \in Threads :
        (/\ ReportAnswered(t)
         /\ req[t].resp.code = 200
         /\ req[t].data.signal_id \notin StoredIds)
        => /\ req[t].signal_id = SignalOf(req[t].data.message_id).id
           /\ events[Len(events)].signal_id = req[t].signal_id
    /\ \A t \in Threads :
        StateAnswered(t) =>
            LET s == SignalOf(req[t].data.message_id)
                own == {i \in 1 .. Len(events) : events[i].signal_id = s.id}
                r == req[t].resp.events
            IN  /\ Len(r) = Cardinality(own)
                /\ \A i \in own : \E j \in 1 .. Len(r) : r[j] = events[i]

\* an event reported with an unknown signal_id and a valid message_id was
\* recorded
C34_Witness ==
    \E t \in Threads :
        /\ ReportAnswered(t)
        /\ req[t].resp.code = 200
        /\ req[t].data.signal_id \notin StoredIds \cup {NoId}
        /\ events[Len(events)].signal_id = SignalOf(req[t].data.message_id).id

----------------------------------------------------------------------------
(* Claims about polling, under SpecPoll *)

\* a response of get_pending_signals lists the Signal with the message_id
Hands(r, m) == \E i \in 1 .. Len(r.signals) : r.signals[i].message_id = m

\* a pending Signal with fewer than PageSize other pending Signals created
\* no later than it
AmongOldest(s) ==
    /\ s.status = "pending"
    /\ Cardinality({o \in StoredPending : o # s /\ o.created_at <= s.created_at})
         < PageSize

----------------------------------------------------------------------------
(* Claims about the side and the targets of the pattern-based strategy,
   under SpecParser *)

\* parse_signal has returned and the pattern-based strategy has extracted
RegexReturned == lst.pc = "returned" /\ Called("parse_signal_with_regex")

\* C36: the side of an order of the pattern-based strategy is that of the
\* circle marker when the text has one (green BUY, red SELL; green is looked
\* for first), whatever side a LIMIT phrase names; it is the side of the
\* phrase only when the text has no marker; and no order is returned when
\* the text has neither a marker nor a phrase with a side.
C36_MarkerDecidesSide ==
    RegexReturned =>
        /\ lst.result # NoSignal =>
            lst.result.action =
                CASE lst.text.marker \in {"green", "both"} -> "BUY"
                  [] lst.text.marker = "red" -> "SELL"
                  [] OTHER -> lst.text.phrase
        /\ (lst.text.marker = "none" /\ lst.text.phrase \notin {"BUY", "SELL"})
             => lst.result = NoSignal

\* a SELL order returned for a text with a red marker and a BUY LIMIT phrase
C36_Witness ==
    /\ RegexReturned
    /\ lst.text.marker = "red"
    /\ lst.text.phrase = "BUY"
    /\ lst.result # NoSignal
    /\ lst.result.action = "SELL"

\* C37: when the text has a numbered target token, the targets of the
\* pattern-based strategy are those of the numbered tokens alone and the
\* unnumbered take-profit token is ignored; a text with numbered tokens and
\* none for level 1 gives no order, with or without an unnumbered token.
C37_NumberedTargetsOnly ==
    (RegexReturned /\ lst.text.numbered # <<>>) =>
        /\ lst.result # NoSignal =>
            /\ lst.result.take_profit_1 = TpDictGet(lst.text.numbered, 1)
            /\ lst.result.take_profit_2 = TpDictGet(lst.text.numbered, 2)
            /\ lst.result.take_profit_3 = TpDictGet(lst.text.numbered, 3)
        /\ TpDictGet(lst.text.numbered, 1) = Null => lst.result = NoSignal

\* no order for a text whose only numbered token is of level 2, although it
\* has an unnumbered take-profit token and every other part of an order
C37_Witness ==
    /\ RegexReturned
    /\ lst.text = [RxText EXCEPT !.numbered = << <<2, 4>> >>, !.simple = 3]
    /\ lst.result = NoSignal

----------------------------------------------------------------------------
(* main_with_recovery: the recovery loop of the Telegram listener *)

max_backoff_delay == 300

backoff_reset_interval == 3600

\* seconds an attempt to initialize or a stay connected may take
AttemptSeconds == {0, 1800}

\* time.time() - self.last_backoff_reset after d more seconds, counted up to
\* the first value beyond backoff_reset_interval
Later(since, d) ==
    IF since + d > backoff_reset_interval THEN backoff_reset_interval + 1
    ELSE since + d

Pow2(n) == IF n = 0 THEN 1 ELSE IF n = 1 THEN 2 ELSE IF n = 2 THEN 4
           ELSE IF n = 3 THEN 8 ELSE 16

Min(a, b) == IF a < b THEN a ELSE b

\* _calculate_smart_backoff: the counter after the hourly reset, and the delay
BackoffFailures(s) ==
    IF s.since_backoff_reset > backoff_reset_interval THEN 0
    ELSE s.consecutive_failures

BackoffDelay(failures) ==
    IF failures < 5 THEN Min(30 * Pow2(failures), 120) ELSE max_backoff_delay

\* start(): running, a fresh shutdown event, the signal handlers, and the
\* recovery loop as a task, unless the web server does not answer
Start ==
    /\ system.pc = "created"
    /\ \/ system' = [system EXCEPT !.pc = "loop", !.running = TRUE,
                                   !.shutdown_event = "clear"]
       \/ system' = [system EXCEPT !.pc = "exited", !.shutdown_event = "clear"]
    /\ UNCHANGED <<serverVars, lst>>

\* while self.running: a new listener is created and initialized
LoopTest ==
    /\ system.pc = "loop"
    /\ system' = [system EXCEPT !.pc = IF system.running THEN "initialize" ELSE "exited"]
    /\ UNCHANGED <<serverVars, lst>>

\* the counters after a successful start that keeps the failure counters
ResetOnSuccess_KeepsFailures(s) ==
    [s EXCEPT !.since_backoff_reset = 0, !.total_downtime = 0]

\* the counters after a successful start
ResetOnSuccess(s) ==
    [s EXCEPT !.current_restart_count = 0, !.consecutive_failures = 0,
              !.since_backoff_reset = 0, !.total_downtime = 0]

\* except Exception: the counters, the test of running, the backoff delay
HandleFailure(s) ==
    LET counted == [s EXCEPT !.current_restart_count = @ + 1,
                             !.consecutive_failures = @ + 1]
        failures == BackoffFailures(counted)
    IN  IF ~s.running THEN [counted EXCEPT !.pc = "exited"]
        ELSE [counted EXCEPT
                !.consecutive_failures = failures,
                !.since_backoff_reset =
                    IF counted.since_backoff_reset > backoff_reset_interval
                    THEN 0 ELSE @,
                !.backoff_delay = BackoffDelay(failures),
                !.pc = "cleanup"]

\* initialize() returns True: the counters are reset and start_listening()
\* is awaited
InitializeSucceeds ==
    /\ system.pc = "initialize"
    /\ \E d \in AttemptSeconds :
        system' = [ResetOnSuccess([system EXCEPT
                      !.since_backoff_reset = Later(@, d)])
                   EXCEPT !.pc = "listening"]
    /\ UNCHANGED <<serverVars, lst>>

\* initialize() returns False or raises
InitializeFails ==
    /\ system.pc = "initialize"
    /\ system.current_restart_count < MaxRestarts
    /\ \E d \in AttemptSeconds :
        system' = HandleFailure([system EXCEPT !.since_backoff_reset = Later(@, d)])
    /\ UNCHANGED <<serverVars, lst>>

\* start_listening() returns or raises: a shutdown ends the loop, anything
\* else is an unexpected disconnect
ListeningEnds ==
    /\ system.pc = "listening"
    /\ system.running => system.current_restart_count < MaxRestarts
    /\ \E d \in AttemptSeconds, raised \in BOOLEAN :
        LET s == [system EXCEPT !.since_backoff_reset = Later(@, d)] IN
        system' = IF ~raised /\ ~s.running THEN [s EXCEPT !.pc = "exited"]
                  ELSE HandleFailure(s)
    /\ UNCHANGED <<serverVars, lst>>

\* await self.telegram_listener.shutdown(), whatever it raises
Cleanup ==
    /\ system.pc = "cleanup"
    /\ system' = [system EXCEPT !.pc = "waiting"]
    /\ UNCHANGED <<serverVars, lst>>

\* wait_for(self.shutdown_event.wait(), timeout=backoff_delay) returns
WaitShutdown ==
    /\ system.pc = "waiting"
    /\ system.shutdown_event = "set"
    /\ system' = [system EXCEPT !.pc = "exited"]
    /\ UNCHANGED <<serverVars, lst>>

\* wait_for raises TimeoutError: the downtime is counted and the loop goes on
WaitTimeout ==
    /\ system.pc = "waiting"
    /\ system.shutdown_event # "set"
    /\ system' = [system EXCEPT
                    !.since_backoff_reset = Later(@, system.backoff_delay),
                    !.total_downtime = @ + system.backoff_delay,
                    !.pc = "loop"]
    /\ UNCHANGED <<serverVars, lst>>

\* _signal_handler: running is cleared and the setting of the event is handed
\* to the event loop, unless that raises
SignalHandler ==
    /\ system.pc \notin {"created", "exited"}
    /\ system.shutdown_event = "clear"
    /\ \E handed \in BOOLEAN :
        system' = [system EXCEPT
                     !.running = FALSE,
                     !.shutdown_event = IF handed THEN "handed" ELSE @]
    /\ system.running \/ system'.shutdown_event = "handed"
    /\ UNCHANGED <<serverVars, lst>>

\* the event loop runs shutdown_event.set
EventSet ==
    /\ system.shutdown_event = "handed"
    /\ system' = [system EXCEPT !.shutdown_event = "set"]
    /\ UNCHANGED <<serverVars, lst>>

\* start() cancels the task of the loop once the event is set: CancelledError
\* at the await of the loop; the bare except of the cleanup swallows it
Cancel ==
    /\ system.shutdown_event = "set"
    /\ system.pc \in {"initialize", "listening", "cleanup", "waiting"}
    /\ system' = [system EXCEPT !.pc = IF system.pc = "cleanup" THEN "waiting"
                                       ELSE "exited"]
    /\ UNCHANGED <<serverVars, lst>>

NextRecovery ==
    \/ Start
    \/ LoopTest
    \/ InitializeSucceeds
    \/ InitializeFails
    \/ ListeningEnds
    \/ Cleanup
    \/ WaitShutdown
    \/ WaitTimeout
    \/ SignalHandler
    \/ EventSet
    \/ Cancel

\* the event loop runs every coroutine that can go on
RecoveryFairness ==
    /\ WF_vars(LoopTest)
    /\ WF_vars(Cleanup)
    /\ WF_vars(WaitShutdown)
    /\ WF_vars(WaitTimeout)
    /\ WF_vars(EventSet)
    /\ WF_vars(Cancel)

SpecRecovery == Init /\ [][NextRecovery]_vars /\ RecoveryFairness

----------------------------------------------------------------------------
(* Claims about the recovery loop, under SpecRecovery *)

\* a shutdown has been requested: running is cleared or the event is set
ShutdownRequested == ~system.running \/ system.shutdown_event = "set"

\* the step begins an attempt to start the listener
StartAttempt == system.pc # "initialize" /\ system'.pc = "initialize"

\* C38: without a shutdown request, the wait that follows a failure of the
\* listener leads to another attempt to start it, and the loop ends only on
\* a shutdown request, however many failures were counted; a successful
\* initialization sets current_restart_count and consecutive_failures to 0;
\* after a shutdown request, also one made during the wait, the loop starts
\* no further attempt, and once the event is set the loop ends.
C38_RestartUntilShutdown ==
    /\ (system.pc \in {"cleanup", "waiting"} /\ ~ShutdownRequested)
         ~> (system.pc = "initialize" \/ ShutdownRequested)
    /\ [][(system.pc \notin {"created", "exited"} /\ system'.pc = "exited")
            => ShutdownRequested]_vars
    /\ [][(system.pc = "initialize" /\ system'.pc = "listening")
            => /\ system'.current_restart_count = 0
               /\ system'.consecutive_failures = 0]_vars
    /\ [][(system.pc # "created" /\ ShutdownRequested) => ~StartAttempt]_vars
    /\ (system.pc # "created" /\ system.shutdown_event = "set")
         ~> (system.pc = "exited")

\* another attempt to start the listener after MaxRestarts failures in a row
C38_Witness ==
    /\ system.pc = "initialize"
    /\ system.running
    /\ system.current_restart_count = MaxRestarts
    /\ system.consecutive_failures = MaxRestarts

\* C39: the wait after the 1st, 2nd, 3rd, 4th and 5th failure in a row is
\* 30, 60, 120, 120 and 120 seconds and 300 seconds after every further
\* one; it is never more than max_backoff_delay; and once more than
\* backoff_reset_interval seconds have passed since the last reset the
\* count starts again and the wait is the shortest one.
C39_BackoffSchedule ==
    system.pc \in {"cleanup", "waiting"} =>
        LET n == system.consecutive_failures IN
        /\ system.backoff_delay <= max_backoff_delay
        /\ system.backoff_delay =
             CASE n = 0 -> 30
               [] n = 1 -> 30
               [] n = 2 -> 60
               [] n \in 3 .. 5 -> 120
               [] OTHER -> 300

\* the waits the loop takes: 60 seconds after the 1st failure in a row, 120
\* after the 2nd, 3rd and 4th, max_backoff_delay from the 5th on, and 30
\* after the reset of the count
C39_BackoffAsComputed ==
    system.pc \in {"cleanup", "waiting"} =>
        LET n == system.consecutive_failures IN
        /\ system.backoff_delay <= max_backoff_delay
        /\ system.backoff_delay =
             CASE n = 0 -> 30
               [] n = 1 -> 60
               [] n \in 2 .. 4 -> 120
               [] OTHER -> max_backoff_delay

====
